---- MODULE Spec2Model ----
(***************************************************************************)
(* pga: a convenience wrapper around pg-pool.  The model covers the        *)
(* adapter's multi-query entry points, #transact and #parallel, the        *)
(* callback/Promise dispatcher `multiple`, the transaction helper          *)
(* `rollback`, and the `sequence` driver that #transact iterates with.     *)
(*                                                                         *)
(* Spec has one call of #transact or #parallel; SpecSequence the driver    *)
(* called on its own, with a worker of the caller's; SpecConcurrent        *)
(* several #transact invocations on one pool; SpecDelegation #close and    *)
(* #query; SpecSql the `sql` template tag; SpecReentrant the driver with a *)
(* worker that calls a continuation twice; SpecPoolError one call on a     *)
(* pool that emits 'error'; SpecLive is Spec with every started operation  *)
(* completing.                                                             *)
(*                                                                         *)
(* JavaScript runs every callback to completion; the model has one action  *)
(* per callback (per event-loop task).  `pending` holds the tasks that    *)
(* have been started and whose callback has not run yet: pool and client   *)
(* operations in flight and process.nextTick callbacks.                    *)
(***************************************************************************)
EXTENDS Integers, Sequences, FiniteSets, TLC

\* ---------------------------------------------------------------- bounds
MaxLen == 3          \* longest statement list passed to the adapter
NumConns == 2        \* connections the pool can hand out
NumInvs == 2         \* concurrent invocations of #transact
MaxConcLen == 2      \* statements a concurrent invocation passes
MaxKeys == 2         \* interpolations in a tagged template
MaxCalls == 2        \* calls of #close and #query
MaxArgs == 2         \* arguments passed in one such call
MaxRepeats == 1      \* continuations a worker calls a second time
MaxEvents == 1       \* 'error' events the pool emits

Texts == {"q1", "q2"}
Conns == 1..NumConns
Invs == 1..NumInvs

\* A query object as node-postgres takes it: { text, values }, `values`
\* being optional.
Statement == [text : Texts] \cup [text : Texts, values : {<<"v">>}]

RECURSIVE SeqsUpTo(_, _)
SeqsUpTo(S, n) ==
    IF n = 0 THEN {<<>>}
    ELSE LET shorter == SeqsUpTo(S, n - 1)
         IN  shorter \cup {Append(s, x) : s \in {t \in shorter : Len(t) = n - 1}, x \in S}

StatementLists == SeqsUpTo(Statement, MaxLen)

\* ------------------------------------------------------- values and errors
NoError == [kind |-> "null", at |-> 0]
Err(kind, at) == [kind |-> kind, at |-> at]

Null == [tag |-> "null", items |-> <<>>]
Arr(items) == [tag |-> "array", items |-> items]

\* An array slot that was never assigned (new Array(n) leaves holes).
Empty == [tag |-> "empty", text |-> "", values |-> <<>>]
\* What the database answers to one query.
Result(text, values) == [tag |-> "result", text |-> text, values |-> values]

NoClient == 0

VARIABLES
    op,          \* adapter method that was called: "none", "transact", "parallel"
    queries,     \* its `queries` argument
    mode,        \* "callback" when a function was passed, else "promise"
    callback,    \* its `callback` argument
    calls,       \* invocations of the callback handed to performX: <<[error, result]>>
    promise,     \* the Promise `multiple` returned: [state, error, value]
    heldAtCall,  \* per invocation of that callback: was the lease still held?
    pending,     \* tasks started and not yet called back
    client,      \* `client` of the pool.connect callback
    leased,      \* connections checked out of the pool
    doneCalls,   \* invocations of `done`, the release function: <<argument>>
    log,         \* queries issued on clients: <<[conn, text, values]>>
    poolLog,     \* one-shot queries issued on the pool: <<statement>>
    observed,    \* completions seen by the callbacks so far: <<[kind, idx, ok]>>
    accumulator, \* sequence: `accumulator`
    index,       \* sequence: `index`
    count,       \* performParallel: `count`
    results,     \* performParallel: `results`
    eachLog,     \* sequence called on its own: invocations of `each`: <<[item, at]>>
    doneLog,     \* sequence called on its own: invocations of `done`: <<accumulator>>
    pushLog,     \* values the workers pushed, in the order pushed
    self,        \* the invocation whose callback is running
    parked,      \* the closure variables of the other invocations
    apiLog,      \* calls of #close and #query: <<[method, args, returned]>>
    poolCalls,   \* calls of pool.end and pool.query: <<[method, args, returned]>>
    strings,     \* sql: `strings`
    keys,        \* sql: `keys`
    tagged,      \* sql: what the tag returned: <<[text, values]>>
    poolEvents   \* 'error' events the pool emitted: <<tasks outstanding at the time>>

\* What one invocation of an adapter method keeps in its closures.
locals == <<op, queries, mode, callback, calls, promise, heldAtCall, pending, client, doneCalls,
            log, poolLog, observed, accumulator, index, count, results>>

\* The same, as one value.
Local ==
    [op |-> op, queries |-> queries, mode |-> mode, callback |-> callback,
     calls |-> calls, promise |-> promise, heldAtCall |-> heldAtCall,
     pending |-> pending, client |-> client,
     doneCalls |-> doneCalls, log |-> log, poolLog |-> poolLog, observed |-> observed,
     accumulator |-> accumulator, index |-> index, count |-> count, results |-> results]

\* State that #transact and #parallel never touch.
others == <<eachLog, doneLog, pushLog, self, parked, apiLog, poolCalls, strings, keys, tagged, poolEvents>>

vars == <<locals, leased, others>>

Task(kind, idx, nxt, err) == [kind |-> kind, idx |-> idx, nxt |-> nxt, err |-> err]

\* The closure variables of an invocation that has not been made yet.
Fresh ==
    [op |-> "none", queries |-> <<>>, mode |-> "callback", callback |-> "undefined",
     calls |-> <<>>, promise |-> [state |-> "none", error |-> NoError, value |-> Null],
     heldAtCall |-> <<>>,
     pending |-> {}, client |-> NoClient, doneCalls |-> <<>>, log |-> <<>>,
     poolLog |-> <<>>, observed |-> <<>>, accumulator |-> <<>>, index |-> 0,
     count |-> 0, results |-> <<>>]

\* A constructed adapter on which nothing has been called.
Idle ==
    /\ op = "none"
    /\ mode = "callback"
    /\ callback = "undefined"
    /\ calls = <<>>
    /\ heldAtCall = <<>>
    /\ promise = [state |-> "none", error |-> NoError, value |-> Null]
    /\ pending = {}
    /\ client = NoClient
    /\ leased = {}
    /\ doneCalls = <<>>
    /\ log = <<>>
    /\ poolLog = <<>>
    /\ observed = <<>>
    /\ accumulator = <<>>
    /\ index = 0
    /\ count = 0
    /\ results = <<>>
    /\ eachLog = <<>>
    /\ doneLog = <<>>
    /\ pushLog = <<>>
    /\ self = 1
    /\ parked = [j \in Invs |-> Fresh]
    /\ apiLog = <<>>
    /\ poolCalls = <<>>
    /\ tagged = <<>>
    /\ poolEvents = <<>>

Init ==
    /\ Idle
    /\ queries = <<>>
    /\ strings = <<>>
    /\ keys = <<>>

\* ------------------------------------------------------------ environment
\* `current.values || []`
Params(current) == IF "values" \in DOMAIN current THEN current.values ELSE <<>>

RollbackError(ok) == IF ok THEN NoError ELSE Err("ROLLBACK", 0)

\* `error || rollbackError`: the triggering error wins
OrError_Swapped(rollbackError, error) ==
    IF error # NoError THEN error ELSE rollbackError

\* `rollbackError || error`
OrError(rollbackError, error) ==
    IF rollbackError # NoError THEN rollbackError ELSE error

\* results.unshift(result)
push_Unshift(acc, result) == <<result>> \o acc

\* results.push(result)
push(acc, result) == Append(acc, result)

\* results[count] = result: slots filled in completion order
store_ByCount(idx, result) == [results EXCEPT ![count + 1] = result]

\* results[index] = result
store(idx, result) == [results EXCEPT ![idx] = result]

\* client.query(text, values, cb) on the connection held in `client`
ClientQuery(text, values) ==
    log' = Append(log, [conn |-> client, text |-> text, values |-> values])

Observe(kind, idx, ok) ==
    observed' = Append(observed, [kind |-> kind, idx |-> idx, ok |-> ok])

\* done(arg): hands the connection back to the pool
Release(tag, conn, error) ==
    /\ doneCalls' = Append(doneCalls, [tag |-> tag, conn |-> conn, error |-> error])
    /\ leased' = leased \ {client}

\* Does the invocation hold its connection, the pool's leases being `pool`?
StillHeld(pool) == op = "transact" /\ client # NoClient /\ client \in pool

\* A wrapper whose every call settles the Promise anew: the last call wins.
Callback_LastSettleWins(error, result) ==
    /\ calls' = Append(calls, [error |-> error, result |-> result])
    /\ heldAtCall' = Append(heldAtCall, StillHeld(leased'))
    /\ promise' =
         IF mode = "promise"
         THEN IF error # NoError
              THEN [state |-> "rejected", error |-> error, value |-> Null]
              ELSE [state |-> "fulfilled", error |-> NoError, value |-> result]
         ELSE promise

\* A wrapper that calls resolve() without the result.
Callback_ResolveNothing(error, result) ==
    /\ calls' = Append(calls, [error |-> error, result |-> result])
    /\ heldAtCall' = Append(heldAtCall, StillHeld(leased'))
    /\ promise' =
         IF mode = "promise" /\ promise.state = "pending"
         THEN IF error # NoError
              THEN [state |-> "rejected", error |-> error, value |-> Null]
              ELSE [state |-> "fulfilled", error |-> NoError, value |-> Null]
         ELSE promise

\* The caller is notified first and done is called after: the caller's
\* function finds the pool as it was when the handler began.
Callback_BeforeDone(error, result) ==
    /\ calls' = Append(calls, [error |-> error, result |-> result])
    /\ heldAtCall' = Append(heldAtCall, StillHeld(leased))
    /\ promise' =
         IF mode = "promise" /\ promise.state = "pending"
         THEN IF error # NoError
              THEN [state |-> "rejected", error |-> error, value |-> Null]
              ELSE [state |-> "fulfilled", error |-> NoError, value |-> result]
         ELSE promise

\* ------------------------------------------------------------- multiple
\* The callback `multiple` hands to performTransaction / performParallel:
\* the caller's own function, or the wrapper that settles the Promise.  A
\* Promise keeps its first settlement.
Callback(error, result) ==
    /\ calls' = Append(calls, [error |-> error, result |-> result])
    /\ heldAtCall' = Append(heldAtCall, StillHeld(leased'))
    /\ promise' =
         IF mode = "promise" /\ promise.state = "pending"
         THEN IF error # NoError
              THEN [state |-> "rejected", error |-> error, value |-> Null]
              ELSE [state |-> "fulfilled", error |-> NoError, value |-> result]
         ELSE promise

\* `callback` as the caller may pass it: a function, nothing, or a value that
\* is not callable (the tests pass the string 'not a function').
CallbackArgs == {"function", "undefined", "string"}

\* `if (callback)`: every truthy value is taken for a function
IsFunction_Truthy(cb) == cb # "undefined"

\* `callback && typeof callback === 'function'`
IsFunction(cb) == cb # "undefined" /\ cb = "function"

multiple(fn, q, cb) ==
    /\ op = "none"
    /\ op' = fn
    /\ queries' = q
    /\ callback' = cb
    /\ mode' = IF IsFunction(cb) THEN "callback" ELSE "promise"
    /\ promise' = IF IsFunction(cb)
                  THEN promise
                  ELSE [state |-> "pending", error |-> NoError, value |-> Null]

\* ------------------------------------------------------------- sequence
\* next() without its else branch: past the last item nothing is scheduled.
next_NoCompletion(i, rest) ==
    /\ index' = i
    /\ pending' = IF i < Len(queries)
                  THEN rest \cup {Task("tickEach", 0, 0, NoError)}
                  ELSE rest

\* next(arr, i): `index = i || 0`, then one nextTick for the worker or for
\* the completion callback.
next(i, rest) ==
    /\ index' = i
    /\ pending' = rest \cup
         {Task(IF i < Len(queries) THEN "tickEach" ELSE "tickDone", 0, 0, NoError)}

\* `if (!arr.length) return;` ahead of the first next(): nothing is scheduled
\* for an empty array.
sequence_SkipEmpty(rest) ==
    /\ accumulator' = <<>>
    /\ IF queries = <<>>
       THEN index' = 0 /\ pending' = rest
       ELSE next(0, rest)

\* sequence(arr, each, done): `let accumulator = []`, then next(arr)
sequence(rest) ==
    /\ accumulator' = <<>>
    /\ next(0, rest)

\* ---------------------------------------------------------- transactions
rollback(error, rest) ==
    /\ ClientQuery("ROLLBACK", <<>>)
    /\ pending' = rest \cup {Task("ROLLBACK", 0, 0, error)}

performTransaction ==
    pending' = {Task("connect", 0, 0, NoError)}

transact ==
    \E q \in StatementLists, cb \in CallbackArgs :
        /\ multiple("transact", q, cb)
        /\ performTransaction
        /\ UNCHANGED <<others, calls, heldAtCall, client, leased, doneCalls, log, poolLog,
                       observed,
                       accumulator, index, count, results>>

\* A connect error is handled like every other error, through rollback().
connectCallback_RollbackOnError ==
    \E t \in pending, ok \in BOOLEAN :
        /\ t.kind = "connect"
        /\ Observe("connect", 0, ok)
        /\ IF ok
           THEN \E c \in Conns \ leased :
                  /\ client' = c
                  /\ leased' = leased \cup {c}
                  /\ log' = Append(log, [conn |-> c, text |-> "BEGIN", values |-> <<>>])
                  /\ pending' = (pending \ {t}) \cup {Task("BEGIN", 0, 0, NoError)}
           ELSE /\ rollback(Err("connect", 0), pending \ {t})
                /\ UNCHANGED <<client, leased>>
        /\ UNCHANGED <<others, op, queries, mode, callback, calls, promise, heldAtCall,
                       doneCalls, poolLog,
                       accumulator, index, count, results>>

\* A connect error is reported without calling done.
connectCallback_NoDone ==
    \E t \in pending, ok \in BOOLEAN :
        /\ t.kind = "connect"
        /\ Observe("connect", 0, ok)
        /\ IF ok
           THEN \E c \in Conns \ leased :
                  /\ client' = c
                  /\ leased' = leased \cup {c}
                  /\ log' = Append(log, [conn |-> c, text |-> "BEGIN", values |-> <<>>])
                  /\ pending' = (pending \ {t}) \cup {Task("BEGIN", 0, 0, NoError)}
                  /\ UNCHANGED <<calls, promise, heldAtCall, doneCalls>>
           ELSE /\ UNCHANGED <<client, log, leased, doneCalls>>
                /\ Callback(Err("connect", 0), Null)
                /\ pending' = pending \ {t}
        /\ UNCHANGED <<others, op, queries, mode, callback, poolLog, accumulator, index,
                       count, results>>

\* pool.connect((error, client, done) => ...)
connectCallback ==
    \E t \in pending, ok \in BOOLEAN :
        /\ t.kind = "connect"
        /\ Observe("connect", 0, ok)
        /\ IF ok
           THEN \E c \in Conns \ leased :
                  /\ client' = c
                  /\ leased' = leased \cup {c}
                  /\ log' = Append(log, [conn |-> c, text |-> "BEGIN", values |-> <<>>])
                  /\ pending' = (pending \ {t}) \cup {Task("BEGIN", 0, 0, NoError)}
                  /\ UNCHANGED <<calls, promise, heldAtCall, doneCalls>>
           ELSE /\ Release("client", NoClient, NoError)
                /\ Callback(Err("connect", 0), Null)
                /\ pending' = pending \ {t}
                /\ UNCHANGED <<client, log>>
        /\ UNCHANGED <<others, op, queries, mode, callback, poolLog, accumulator, index,
                       count, results>>

\* The BEGIN error branch without its return: rollback() is started and the
\* statements are run all the same.
beginCallback_NoReturn ==
    \E t \in pending, ok \in BOOLEAN :
        /\ t.kind = "BEGIN"
        /\ Observe("BEGIN", 0, ok)
        /\ accumulator' = <<>>
        /\ index' = 0
        /\ LET tick == Task(IF 0 < Len(queries) THEN "tickEach" ELSE "tickDone",
                            0, 0, NoError)
           IN  IF ok
               THEN /\ pending' = (pending \ {t}) \cup {tick}
                    /\ UNCHANGED log
               ELSE /\ ClientQuery("ROLLBACK", <<>>)
                    /\ pending' = (pending \ {t}) \cup
                         {tick, Task("ROLLBACK", 0, 0, Err("BEGIN", 0))}
        /\ UNCHANGED <<others, op, queries, mode, callback, calls, promise, heldAtCall,
                       client, leased,
                       doneCalls, poolLog, count, results>>

\* client.query('BEGIN', error => ...)
beginCallback ==
    \E t \in pending, ok \in BOOLEAN :
        /\ t.kind = "BEGIN"
        /\ Observe("BEGIN", 0, ok)
        /\ IF ok
           THEN /\ sequence(pending \ {t})
                /\ UNCHANGED log
           ELSE /\ rollback(Err("BEGIN", 0), pending \ {t})
                /\ UNCHANGED <<accumulator, index>>
        /\ UNCHANGED <<others, op, queries, mode, callback, calls, promise, heldAtCall,
                       client, leased,
                       doneCalls,
                       poolLog, count, results>>

\* The worker calls next() right after issuing the statement instead of from
\* the statement's callback.
eachTick_NoWait ==
    \E t \in pending :
        /\ t.kind = "tickEach"
        /\ LET current == queries[index + 1]
           IN  /\ ClientQuery(current.text, Params(current))
               /\ index' = index + 1
               /\ pending' = (pending \ {t}) \cup
                    {Task("stmt", index + 1, index + 1, NoError),
                     Task(IF index + 1 < Len(queries) THEN "tickEach" ELSE "tickDone",
                          0, 0, NoError)}
        /\ UNCHANGED <<others, op, queries, mode, callback, calls, promise, heldAtCall,
                       client, leased,
                       doneCalls,
                       poolLog, observed, accumulator, count, results>>

\* sequence's nextTick for one item: each(accumulator, arr[index], cont(++index)),
\* the worker issuing the statement on the client.
eachTick ==
    \E t \in pending :
        /\ t.kind = "tickEach"
        /\ LET current == queries[index + 1]
           IN  /\ ClientQuery(current.text, Params(current))
               /\ index' = index + 1
               /\ pending' = (pending \ {t}) \cup {Task("stmt", index + 1, index + 1, NoError)}
        /\ UNCHANGED <<others, op, queries, mode, callback, calls, promise, heldAtCall,
                       client, leased,
                       doneCalls,
                       poolLog, observed, accumulator, count, results>>

\* A statement error is reported straight away, without ROLLBACK.
queryCallback_NoRollback ==
    \E t \in pending, ok \in BOOLEAN :
        /\ t.kind = "stmt"
        /\ Observe("stmt", t.idx, ok)
        /\ IF ok
           THEN /\ accumulator' = push(accumulator,
                       Result(queries[t.idx].text, Params(queries[t.idx])))
                /\ next(t.nxt, pending \ {t})
                /\ UNCHANGED <<log, calls, promise, heldAtCall, leased, doneCalls>>
           ELSE /\ Release("client", client, NoError)
                /\ Callback(Err("stmt", t.idx), Null)
                /\ pending' = pending \ {t}
                /\ UNCHANGED <<log, accumulator, index>>
        /\ UNCHANGED <<others, op, queries, mode, callback, client, poolLog, count, results>>

\* The statement error branch without its return: rollback() is started, the
\* missing result is pushed and the sequence goes on.
queryCallback_NoReturn ==
    \E t \in pending, ok \in BOOLEAN :
        /\ t.kind = "stmt"
        /\ Observe("stmt", t.idx, ok)
        /\ index' = t.nxt
        /\ LET tick == Task(IF t.nxt < Len(queries) THEN "tickEach" ELSE "tickDone",
                            0, 0, NoError)
           IN  IF ok
               THEN /\ accumulator' = push(accumulator,
                           Result(queries[t.idx].text, Params(queries[t.idx])))
                    /\ pending' = (pending \ {t}) \cup {tick}
                    /\ UNCHANGED log
               ELSE /\ accumulator' = push(accumulator, Empty)
                    /\ ClientQuery("ROLLBACK", <<>>)
                    /\ pending' = (pending \ {t}) \cup
                         {tick, Task("ROLLBACK", 0, 0, Err("stmt", t.idx))}
        /\ UNCHANGED <<others, op, queries, mode, callback, calls, promise, heldAtCall,
                       client, leased,
                       doneCalls, poolLog, count, results>>

\* The missing result of a failed statement is pushed before the rollback.
queryCallback_PushOnError ==
    \E t \in pending, ok \in BOOLEAN :
        /\ t.kind = "stmt"
        /\ Observe("stmt", t.idx, ok)
        /\ IF ok
           THEN /\ accumulator' = push(accumulator,
                       Result(queries[t.idx].text, Params(queries[t.idx])))
                /\ next(t.nxt, pending \ {t})
                /\ UNCHANGED log
           ELSE /\ accumulator' = push(accumulator, Empty)
                /\ rollback(Err("stmt", t.idx), pending \ {t})
                /\ UNCHANGED index
        /\ UNCHANGED <<others, op, queries, mode, callback, calls, promise, heldAtCall,
                       client, leased,
                       doneCalls,
                       poolLog, count, results>>

\* A failed statement gives the connection back before ROLLBACK is issued.
queryCallback_ReleaseEarly ==
    \E t \in pending, ok \in BOOLEAN :
        /\ t.kind = "stmt"
        /\ Observe("stmt", t.idx, ok)
        /\ IF ok
           THEN /\ accumulator' = push(accumulator,
                       Result(queries[t.idx].text, Params(queries[t.idx])))
                /\ next(t.nxt, pending \ {t})
                /\ UNCHANGED <<log, leased, doneCalls>>
           ELSE /\ Release("client", client, NoError)
                /\ rollback(Err("stmt", t.idx), pending \ {t})
                /\ UNCHANGED <<accumulator, index>>
        /\ UNCHANGED <<others, op, queries, mode, callback, calls, promise, heldAtCall, client,
                       poolLog, count, results>>

\* A timer next to the statement: when it fires first, the transaction is
\* rolled back although the statement has not completed.
queryCallback_Timeout ==
    \E t \in pending :
        /\ t.kind = "stmt"
        /\ \/ \E ok \in BOOLEAN :
                /\ Observe("stmt", t.idx, ok)
                /\ IF ok
                   THEN /\ accumulator' = push(accumulator,
                               Result(queries[t.idx].text, Params(queries[t.idx])))
                        /\ next(t.nxt, pending \ {t})
                        /\ UNCHANGED log
                   ELSE /\ rollback(Err("stmt", t.idx), pending \ {t})
                        /\ UNCHANGED <<accumulator, index>>
           \/ /\ Len(log) < MaxLen + 3
              /\ rollback(Err("stmt", t.idx), pending)
              /\ UNCHANGED <<observed, accumulator, index>>
        /\ UNCHANGED <<others, op, queries, mode, callback, calls, promise, heldAtCall,
                       client, leased, doneCalls, poolLog, count, results>>

\* client.query(query, params, (error, result) => ...)
queryCallback ==
    \E t \in pending, ok \in BOOLEAN :
        /\ t.kind = "stmt"
        /\ Observe("stmt", t.idx, ok)
        /\ IF ok
           THEN /\ accumulator' = push(accumulator,
                       Result(queries[t.idx].text, Params(queries[t.idx])))
                /\ next(t.nxt, pending \ {t})
                /\ UNCHANGED log
           ELSE /\ rollback(Err("stmt", t.idx), pending \ {t})
                /\ UNCHANGED <<accumulator, index>>
        /\ UNCHANGED <<others, op, queries, mode, callback, calls, promise, heldAtCall,
                       client, leased,
                       doneCalls,
                       poolLog, count, results>>

\* sequence's nextTick for completion: done(accumulator), which issues COMMIT
doneTick ==
    \E t \in pending :
        /\ t.kind = "tickDone"
        /\ ClientQuery("COMMIT", <<>>)
        /\ pending' = (pending \ {t}) \cup {Task("COMMIT", 0, 0, NoError)}
        /\ UNCHANGED <<others, op, queries, mode, callback, calls, promise, heldAtCall,
                       client, leased,
                       doneCalls,
                       poolLog, observed, accumulator, index, count, results>>

\* COMMIT succeeds and the caller is notified, but done(client) is left out.
commitCallback_NoRelease ==
    \E t \in pending, ok \in BOOLEAN :
        /\ t.kind = "COMMIT"
        /\ Observe("COMMIT", 0, ok)
        /\ IF ok
           THEN /\ UNCHANGED <<log, leased, doneCalls>>
                /\ Callback(NoError, Arr(accumulator))
                /\ pending' = pending \ {t}
           ELSE /\ rollback(Err("COMMIT", 0), pending \ {t})
                /\ UNCHANGED <<calls, promise, heldAtCall, leased, doneCalls>>
        /\ UNCHANGED <<others, op, queries, mode, callback, client, poolLog, accumulator, index,
                       count, results>>

\* The COMMIT error branch without its return: rollback() is started and the
\* success path runs as well.
commitCallback_NoReturn ==
    \E t \in pending, ok \in BOOLEAN :
        /\ t.kind = "COMMIT"
        /\ Observe("COMMIT", 0, ok)
        /\ Release("client", client, NoError)
        /\ Callback(NoError, Arr(accumulator))
        /\ IF ok
           THEN /\ pending' = pending \ {t}
                /\ UNCHANGED log
           ELSE rollback(Err("COMMIT", 0), pending \ {t})
        /\ UNCHANGED <<others, op, queries, mode, callback, client, poolLog, accumulator,
                       index, count, results>>

\* The COMMIT callback without its error check.
commitCallback_IgnoreError ==
    \E t \in pending, ok \in BOOLEAN :
        /\ t.kind = "COMMIT"
        /\ Observe("COMMIT", 0, ok)
        /\ Release("client", client, NoError)
        /\ Callback(NoError, Arr(accumulator))
        /\ pending' = pending \ {t}
        /\ UNCHANGED <<others, op, queries, mode, callback, client, log, poolLog, accumulator,
                       index, count, results>>

\* `callback(null, results.length ? results : null)`
commitCallback_NullForEmpty ==
    \E t \in pending, ok \in BOOLEAN :
        /\ t.kind = "COMMIT"
        /\ Observe("COMMIT", 0, ok)
        /\ IF ok
           THEN /\ Release("client", client, NoError)
                /\ Callback(NoError, IF accumulator = <<>> THEN Null ELSE Arr(accumulator))
                /\ pending' = pending \ {t}
                /\ UNCHANGED log
           ELSE /\ rollback(Err("COMMIT", 0), pending \ {t})
                /\ UNCHANGED <<calls, promise, heldAtCall, leased, doneCalls>>
        /\ UNCHANGED <<others, op, queries, mode, callback, client, poolLog, accumulator,
                       index, count, results>>

\* client.query('COMMIT', error => ...)
commitCallback ==
    \E t \in pending, ok \in BOOLEAN :
        /\ t.kind = "COMMIT"
        /\ Observe("COMMIT", 0, ok)
        /\ IF ok
           THEN /\ Release("client", client, NoError)
                /\ Callback(NoError, Arr(accumulator))
                /\ pending' = pending \ {t}
                /\ UNCHANGED log
           ELSE /\ rollback(Err("COMMIT", 0), pending \ {t})
                /\ UNCHANGED <<calls, promise, heldAtCall, leased, doneCalls>>
        /\ UNCHANGED <<others, op, queries, mode, callback, client, poolLog, accumulator, index,
                       count, results>>

\* `if (rollbackError) callback(rollbackError, null);` without its return: a
\* failed ROLLBACK notifies the caller twice.
rollbackCallback_CallbackTwice ==
    \E t \in pending, ok \in BOOLEAN :
        /\ t.kind = "ROLLBACK"
        /\ Observe("ROLLBACK", 0, ok)
        /\ Release("rollbackError", NoClient, RollbackError(ok))
        /\ IF ok
           THEN Callback(t.err, Null)
           ELSE /\ calls' = calls \o <<[error |-> RollbackError(ok), result |-> Null],
                                       [error |-> t.err, result |-> Null]>>
                /\ heldAtCall' = heldAtCall \o <<StillHeld(leased'), StillHeld(leased')>>
                /\ promise' =
                     IF mode = "promise" /\ promise.state = "pending"
                     THEN [state |-> "rejected", error |-> RollbackError(ok), value |-> Null]
                     ELSE promise
        /\ pending' = pending \ {t}
        /\ UNCHANGED <<others, op, queries, mode, callback, client, log, poolLog, accumulator,
                       index, count, results>>

\* A failed ROLLBACK is attempted a second time.
rollbackCallback_Retry ==
    \E t \in pending, ok \in BOOLEAN :
        /\ t.kind = "ROLLBACK"
        /\ Observe("ROLLBACK", 0, ok)
        /\ IF ~ok /\ Cardinality({i \in DOMAIN log : log[i].text = "ROLLBACK"}) < 2
           THEN /\ rollback(t.err, pending \ {t})
                /\ UNCHANGED <<calls, promise, heldAtCall, leased, doneCalls>>
           ELSE /\ Release("rollbackError", NoClient, RollbackError(ok))
                /\ Callback(OrError(RollbackError(ok), t.err), Null)
                /\ pending' = pending \ {t}
                /\ UNCHANGED log
        /\ UNCHANGED <<others, op, queries, mode, callback, client, poolLog, accumulator, index,
                       count, results>>

\* `done(rollbackError || error)`: the triggering error reaches the pool.
rollbackCallback_DoneWithTrigger ==
    \E t \in pending, ok \in BOOLEAN :
        /\ t.kind = "ROLLBACK"
        /\ Observe("ROLLBACK", 0, ok)
        /\ Release("rollbackError", NoClient, OrError(RollbackError(ok), t.err))
        /\ Callback(OrError(RollbackError(ok), t.err), Null)
        /\ pending' = pending \ {t}
        /\ UNCHANGED <<others, op, queries, mode, callback, client, log, poolLog,
                       accumulator, index, count, results>>

\* client.query('ROLLBACK', rollbackError => ...)
rollbackCallback ==
    \E t \in pending, ok \in BOOLEAN :
        /\ t.kind = "ROLLBACK"
        /\ Observe("ROLLBACK", 0, ok)
        /\ Release("rollbackError", NoClient, RollbackError(ok))
        /\ Callback(OrError(RollbackError(ok), t.err), Null)
        /\ pending' = pending \ {t}
        /\ UNCHANGED <<others, op, queries, mode, callback, client, log, poolLog,
                       accumulator, index,
                       count, results>>

\* ------------------------------------------------------------- parallel
\* Only the head of the list is issued by the call itself.
performParallel_HeadOnly(q) ==
    /\ count' = 0
    /\ results' = [i \in 1..Len(q) |-> Empty]
    /\ poolLog' = IF q = <<>> THEN <<>> ELSE <<q[1]>>
    /\ pending' = {Task("pquery", i, 0, NoError) : i \in DOMAIN q \cap {1}}

\* let count = 0, results = new Array(queries.length); queries.forEach(...)
performParallel(q) ==
    /\ count' = 0
    /\ results' = [i \in 1..Len(q) |-> Empty]
    /\ poolLog' = q
    /\ pending' = {Task("pquery", i, 0, NoError) : i \in 1..Len(q)}

parallel ==
    \E q \in StatementLists, cb \in CallbackArgs :
        /\ multiple("parallel", q, cb)
        /\ performParallel(q)
        /\ UNCHANGED <<others, calls, heldAtCall, client, leased, doneCalls, log, observed,
                       accumulator, index>>

\* A failure is reported with null instead of the results array.
parallelCallback_NoPartial ==
    \E t \in pending, ok \in BOOLEAN :
        /\ t.kind = "pquery"
        /\ Observe("pquery", t.idx, ok)
        /\ pending' = pending \ {t}
        /\ IF ok
           THEN /\ results' = store(t.idx, Result(queries[t.idx].text, Params(queries[t.idx])))
                /\ count' = count + 1
                /\ IF count + 1 = Len(queries)
                   THEN Callback(NoError, Arr(results'))
                   ELSE UNCHANGED <<calls, promise, heldAtCall>>
           ELSE /\ Callback(Err("pquery", t.idx), Null)
                /\ UNCHANGED <<count, results>>
        /\ UNCHANGED <<others, op, queries, mode, callback, client, leased, doneCalls, log,
                       poolLog,
                       accumulator, index>>

\* Only the first failure is reported; later ones are dropped.
parallelCallback_FirstErrorOnly ==
    \E t \in pending, ok \in BOOLEAN :
        /\ t.kind = "pquery"
        /\ Observe("pquery", t.idx, ok)
        /\ pending' = pending \ {t}
        /\ IF ok
           THEN /\ results' = store(t.idx, Result(queries[t.idx].text, Params(queries[t.idx])))
                /\ count' = count + 1
                /\ IF count + 1 = Len(queries)
                   THEN Callback(NoError, Arr(results'))
                   ELSE UNCHANGED <<calls, promise, heldAtCall>>
           ELSE /\ IF calls = <<>>
                   THEN Callback(Err("pquery", t.idx), Arr(results))
                   ELSE UNCHANGED <<calls, promise, heldAtCall>>
                /\ UNCHANGED <<count, results>>
        /\ UNCHANGED <<others, op, queries, mode, callback, client, leased, doneCalls, log,
                       poolLog,
                       accumulator, index>>

\* `++count` ahead of the error check: the counter counts every completion.
parallelCallback_CountAll ==
    \E t \in pending, ok \in BOOLEAN :
        /\ t.kind = "pquery"
        /\ Observe("pquery", t.idx, ok)
        /\ pending' = pending \ {t}
        /\ count' = count + 1
        /\ IF ok
           THEN /\ results' = store(t.idx, Result(queries[t.idx].text, Params(queries[t.idx])))
                /\ IF count + 1 = Len(queries)
                   THEN Callback(NoError, Arr(results'))
                   ELSE UNCHANGED <<calls, promise, heldAtCall>>
           ELSE /\ Callback(Err("pquery", t.idx), Arr(results))
                /\ UNCHANGED results
        /\ UNCHANGED <<others, op, queries, mode, callback, client, leased, doneCalls, log,
                       poolLog, accumulator, index>>

\* pool.query(query, (error, result) => ...)
parallelCallback ==
    \E t \in pending, ok \in BOOLEAN :
        /\ t.kind = "pquery"
        /\ Observe("pquery", t.idx, ok)
        /\ pending' = pending \ {t}
        /\ IF ok
           THEN /\ results' = store(t.idx, Result(queries[t.idx].text, Params(queries[t.idx])))
                /\ count' = count + 1
                /\ IF count + 1 = Len(queries)
                   THEN Callback(NoError, Arr(results'))
                   ELSE UNCHANGED <<calls, promise, heldAtCall>>
           ELSE /\ Callback(Err("pquery", t.idx), Arr(results))
                /\ UNCHANGED <<count, results>>
        /\ UNCHANGED <<others, op, queries, mode, callback, client, leased, doneCalls, log,
                       poolLog,
                       accumulator, index>>

Next ==
    \/ transact
    \/ connectCallback
    \/ beginCallback
    \/ eachTick
    \/ queryCallback
    \/ doneTick
    \/ commitCallback
    \/ rollbackCallback
    \/ parallel
    \/ parallelCallback

Spec == Init /\ [][Next]_vars

\* Every operation started on the pool or on a client completes, with
\* success or with failure, and calls its callback; process.nextTick runs
\* every callback it was given.  Nothing obliges the caller to call
\* #transact or #parallel.
Fairness ==
    /\ WF_vars(connectCallback)
    /\ WF_vars(beginCallback)
    /\ WF_vars(eachTick)
    /\ WF_vars(queryCallback)
    /\ WF_vars(doneTick)
    /\ WF_vars(commitCallback)
    /\ WF_vars(rollbackCallback)
    /\ WF_vars(parallelCallback)

SpecLive == Spec /\ Fairness

TypeOK ==
    /\ op \in {"none", "transact", "parallel", "sequence"}
    /\ mode \in {"callback", "promise"}
    /\ callback \in CallbackArgs
    /\ queries \in StatementLists
    /\ leased \subseteq Conns
    /\ index \in 0..MaxLen
    /\ count \in 0..MaxLen

\* ------------------------------------------------- sequence, on its own
\* The driver called directly with a worker of the caller's: `queries` holds
\* its `arr`.  The worker takes the continuation it is handed and calls it
\* when it is done with the item, after pushing a value on the accumulator
\* or not.
InitSequence ==
    /\ Idle
    /\ queries \in StatementLists
    /\ strings = <<>>
    /\ keys = <<>>

sequenceCall ==
    /\ op = "none"
    /\ op' = "sequence"
    /\ sequence(pending)
    /\ UNCHANGED <<others, queries, mode, callback, calls, promise, heldAtCall, client, leased,
                   doneCalls, log, poolLog, observed, count, results>>

\* The tick goes on to the next item without waiting for the continuation.
workerTick_NoWait ==
    \E t \in pending :
        /\ op = "sequence"
        /\ t.kind = "tickEach"
        /\ eachLog' = Append(eachLog, queries[index + 1])
        /\ index' = index + 1
        /\ pending' = (pending \ {t}) \cup
             {Task("next", index + 1, index + 1, NoError),
              Task(IF index + 1 < Len(queries) THEN "tickEach" ELSE "tickDone",
                   0, 0, NoError)}
        /\ UNCHANGED <<op, queries, mode, callback, calls, promise, heldAtCall, client, leased,
                       doneCalls, log, poolLog, observed, accumulator, count, results,
                       doneLog, pushLog, self, parked, apiLog, poolCalls, strings, keys,
                       tagged, poolEvents>>

\* A watchdog beside the worker: completion is scheduled whether or not the
\* continuation is ever called.
workerTick_Watchdog ==
    \E t \in pending :
        /\ op = "sequence"
        /\ t.kind = "tickEach"
        /\ eachLog' = Append(eachLog, queries[index + 1])
        /\ index' = index + 1
        /\ pending' = (pending \ {t}) \cup
             {Task("next", index + 1, index + 1, NoError), Task("tickDone", 0, 0, NoError)}
        /\ UNCHANGED <<op, queries, mode, callback, calls, promise, heldAtCall, client, leased,
                       doneCalls, log, poolLog, observed, accumulator, count, results,
                       doneLog, pushLog, self, parked, apiLog, poolCalls, strings, keys,
                       tagged, poolEvents>>

\* sequence's nextTick for one item: each(accumulator, arr[index], cont(++index)).
\* The item is read before the index moves on; the continuation keeps the
\* index it was made with.
workerTick ==
    \E t \in pending :
        /\ op = "sequence"
        /\ t.kind = "tickEach"
        /\ eachLog' = Append(eachLog, queries[index + 1])
        /\ index' = index + 1
        /\ pending' = (pending \ {t}) \cup {Task("next", index + 1, index + 1, NoError)}
        /\ UNCHANGED <<op, queries, mode, callback, calls, promise, heldAtCall, client, leased,
                       doneCalls, log, poolLog, observed, accumulator, count, results,
                       doneLog, pushLog, self, parked, apiLog, poolCalls, strings, keys,
                       tagged, poolEvents>>

\* The worker was handed a copy of the accumulator: what it pushes is lost.
continuation_Copy ==
    \E t \in pending, p \in BOOLEAN :
        /\ op = "sequence"
        /\ t.kind = "next"
        /\ Observe("next", t.idx, TRUE)
        /\ pushLog' = IF p
                      THEN Append(pushLog, Result(queries[t.idx].text, Params(queries[t.idx])))
                      ELSE pushLog
        /\ UNCHANGED accumulator
        /\ next(t.nxt, pending \ {t})
        /\ UNCHANGED <<op, queries, mode, callback, calls, promise, heldAtCall, client, leased,
                       doneCalls, log, poolLog, count, results,
                       eachLog, doneLog, self, parked, apiLog, poolCalls, strings, keys,
                       tagged, poolEvents>>

\* next() without process.nextTick: the next worker, or the completion
\* callback, runs inside the continuation call.
continuation_Sync ==
    \E t \in pending, p \in BOOLEAN :
        /\ op = "sequence"
        /\ t.kind = "next"
        /\ Observe("next", t.idx, TRUE)
        /\ LET value == Result(queries[t.idx].text, Params(queries[t.idx]))
           IN  IF p
               THEN /\ accumulator' = push(accumulator, value)
                    /\ pushLog' = Append(pushLog, value)
               ELSE UNCHANGED <<accumulator, pushLog>>
        /\ IF t.nxt < Len(queries)
           THEN /\ eachLog' = Append(eachLog, queries[t.nxt + 1])
                /\ index' = t.nxt + 1
                /\ pending' = (pending \ {t}) \cup {Task("next", t.nxt + 1, t.nxt + 1, NoError)}
                /\ UNCHANGED doneLog
           ELSE /\ doneLog' = Append(doneLog, accumulator')
                /\ index' = t.nxt
                /\ pending' = pending \ {t}
                /\ UNCHANGED eachLog
        /\ UNCHANGED <<op, queries, mode, callback, calls, promise, heldAtCall, client, leased,
                       doneCalls, log, poolLog, count, results,
                       self, parked, apiLog, poolCalls, strings, keys, tagged, poolEvents>>

\* function() { next(arr, i); }: the worker calls its continuation, having
\* pushed a value for the item or not.
continuation ==
    \E t \in pending, p \in BOOLEAN :
        /\ op = "sequence"
        /\ t.kind = "next"
        /\ Observe("next", t.idx, TRUE)
        /\ LET value == Result(queries[t.idx].text, Params(queries[t.idx]))
           IN  IF p
               THEN /\ accumulator' = push(accumulator, value)
                    /\ pushLog' = Append(pushLog, value)
               ELSE UNCHANGED <<accumulator, pushLog>>
        /\ next(t.nxt, pending \ {t})
        /\ UNCHANGED <<op, queries, mode, callback, calls, promise, heldAtCall, client, leased,
                       doneCalls, log, poolLog, count, results,
                       eachLog, doneLog, self, parked, apiLog, poolCalls, strings, keys,
                       tagged, poolEvents>>

\* sequence's nextTick for completion: done(accumulator)
completionTick ==
    \E t \in pending :
        /\ op = "sequence"
        /\ t.kind = "tickDone"
        /\ doneLog' = Append(doneLog, accumulator)
        /\ pending' = pending \ {t}
        /\ UNCHANGED <<op, queries, mode, callback, calls, promise, heldAtCall, client, leased,
                       doneCalls, log, poolLog, observed, accumulator, index, count, results,
                       eachLog, pushLog, self, parked, apiLog, poolCalls, strings, keys,
                       tagged, poolEvents>>

NextSequence ==
    \/ sequenceCall
    \/ workerTick
    \/ continuation
    \/ completionTick

SpecSequence == InitSequence /\ [][NextSequence]_vars

\* ------------------------------------------- continuations called twice
\* The driver with a worker that may call each continuation a second time.
\* A continuation that was called once stays in `pending` as "called" until
\* its second call.  Several ticks can be outstanding together: each carries
\* the ordinal of the continuation call that scheduled it, and
\* process.nextTick runs them in the order scheduled.

\* arr[index] past the end of the array
Undefined == [text |-> "undefined"]

\* One array of each length, its items differing from each other
ItemAt(k) ==
    LET text == IF k % 2 = 1 THEN "q1" ELSE "q2"
    IN  IF (k - 1) % 4 < 2 THEN [text |-> text] ELSE [text |-> text, values |-> <<"v">>]

DistinctLists == {[k \in 1..n |-> ItemAt(k)] : n \in 0..MaxLen}

InitReentrant ==
    /\ Idle
    /\ queries \in DistinctLists
    /\ strings = <<>>
    /\ keys = <<>>

IsTick(t) == t.kind \in {"tickEach", "tickDone"}

\* The tick at the head of the nextTick queue
Oldest(t) == IsTick(t) /\ \A u \in pending : IsTick(u) => t.idx <= u.idx

\* Second calls made so far
Repeats == Len(observed) - Cardinality({observed[i].idx : i \in DOMAIN observed})

\* next(arr, i) called by a continuation: `index = i`, then one nextTick
nextFromContinuation(i, rest) ==
    /\ index' = i
    /\ pending' = rest \cup
         {Task(IF i < Len(queries) THEN "tickEach" ELSE "tickDone",
               Len(observed) + 1, 0, NoError)}

\* sequence's nextTick for one item: each(accumulator, arr[index], cont(++index)),
\* with `index` as it is when the tick runs.  The task of the continuation
\* carries the ordinal of the worker invocation and the index it captured.
sharedIndexTick ==
    \E t \in pending :
        /\ op = "sequence"
        /\ t.kind = "tickEach"
        /\ Oldest(t)
        /\ eachLog' = Append(eachLog,
                             IF index < Len(queries) THEN queries[index + 1] ELSE Undefined)
        /\ index' = index + 1
        /\ pending' = (pending \ {t}) \cup {Task("next", Len(eachLog) + 1, index + 1, NoError)}
        /\ UNCHANGED <<op, queries, mode, callback, calls, promise, heldAtCall, client, leased,
                       doneCalls, log, poolLog, observed, accumulator, count, results,
                       doneLog, pushLog, self, parked, apiLog, poolCalls, strings, keys,
                       tagged, poolEvents>>

\* function() { next(arr, i); }, called for the first time
firstCall ==
    \E t \in pending :
        /\ op = "sequence"
        /\ t.kind = "next"
        /\ Observe("next", t.idx, TRUE)
        /\ nextFromContinuation(t.nxt, (pending \ {t}) \cup {Task("called", t.idx, t.nxt, NoError)})
        /\ UNCHANGED <<op, queries, mode, callback, calls, promise, heldAtCall, client, leased,
                       doneCalls, log, poolLog, accumulator, count, results,
                       eachLog, doneLog, pushLog, self, parked, apiLog, poolCalls, strings,
                       keys, tagged, poolEvents>>

\* `let called = false` in the continuation: a second call returns at once.
secondCall_Guarded ==
    \E t \in pending :
        /\ op = "sequence"
        /\ t.kind = "called"
        /\ Repeats < MaxRepeats
        /\ Observe("next", t.idx, TRUE)
        /\ pending' = pending \ {t}
        /\ UNCHANGED <<op, queries, mode, callback, calls, promise, heldAtCall, client, leased,
                       doneCalls, log, poolLog, accumulator, index, count, results,
                       eachLog, doneLog, pushLog, self, parked, apiLog, poolCalls, strings,
                       keys, tagged, poolEvents>>

\* function() { next(arr, i); }, called again: the same next(arr, i)
secondCall ==
    \E t \in pending :
        /\ op = "sequence"
        /\ t.kind = "called"
        /\ Repeats < MaxRepeats
        /\ Observe("next", t.idx, TRUE)
        /\ nextFromContinuation(t.nxt, pending \ {t})
        /\ UNCHANGED <<op, queries, mode, callback, calls, promise, heldAtCall, client, leased,
                       doneCalls, log, poolLog, accumulator, count, results,
                       eachLog, doneLog, pushLog, self, parked, apiLog, poolCalls, strings,
                       keys, tagged, poolEvents>>

\* sequence's nextTick for completion: done(accumulator), once it is at the
\* head of the queue
orderedCompletionTick ==
    \E t \in pending :
        /\ op = "sequence"
        /\ t.kind = "tickDone"
        /\ Oldest(t)
        /\ doneLog' = Append(doneLog, accumulator)
        /\ pending' = pending \ {t}
        /\ UNCHANGED <<op, queries, mode, callback, calls, promise, heldAtCall, client, leased,
                       doneCalls, log, poolLog, observed, accumulator, index, count, results,
                       eachLog, pushLog, self, parked, apiLog, poolCalls, strings, keys,
                       tagged, poolEvents>>

NextReentrant ==
    \/ sequenceCall
    \/ sharedIndexTick
    \/ firstCall
    \/ secondCall
    \/ orderedCompletionTick

SpecReentrant == InitReentrant /\ [][NextReentrant]_vars

\* ------------------------------------------------- the pool's 'error' event
\* One call of #transact or #parallel over a given list, on a pool that emits
\* 'error' (an idle client failed) at any moment.

InitPoolError ==
    /\ Idle
    /\ queries \in DistinctLists
    /\ strings = <<>>
    /\ keys = <<>>

\* transact(queries, callback) over the given list
transactGiven ==
    \E cb \in CallbackArgs :
        /\ multiple("transact", queries, cb)
        /\ performTransaction
        /\ UNCHANGED <<others, calls, heldAtCall, client, leased, doneCalls, log, poolLog,
                       observed, accumulator, index, count, results>>

\* parallel(queries, callback) over the given list
parallelGiven ==
    \E cb \in CallbackArgs :
        /\ multiple("parallel", queries, cb)
        /\ performParallel(queries)
        /\ UNCHANGED <<others, calls, heldAtCall, client, leased, doneCalls, log, observed,
                       accumulator, index>>

\* The handler fails what is in flight: the caller is handed the pool's error.
poolError_Report ==
    /\ Len(poolEvents) < MaxEvents
    /\ poolEvents' = Append(poolEvents, pending)
    /\ IF op \in {"transact", "parallel"}
       THEN Callback(Err("pool", 0), Null)
       ELSE UNCHANGED <<calls, promise, heldAtCall>>
    /\ UNCHANGED <<op, queries, mode, callback, pending, client, leased, doneCalls, log,
                   poolLog, observed, accumulator, index, count, results,
                   eachLog, doneLog, pushLog, self, parked, apiLog, poolCalls, strings,
                   keys, tagged>>

\* this.pool.on('error', (error, client) => { }): the handler's body is empty
poolError ==
    /\ Len(poolEvents) < MaxEvents
    /\ poolEvents' = Append(poolEvents, pending)
    /\ UNCHANGED <<locals, leased, eachLog, doneLog, pushLog, self, parked, apiLog,
                   poolCalls, strings, keys, tagged>>

NextPoolError ==
    \/ transactGiven
    \/ parallelGiven
    \/ connectCallback
    \/ beginCallback
    \/ eachTick
    \/ queryCallback
    \/ doneTick
    \/ commitCallback
    \/ rollbackCallback
    \/ parallelCallback
    \/ poolError

SpecPoolError == InitPoolError /\ [][NextPoolError]_vars

\* ------------------------------------------------ concurrent invocations
\* Several #transact invocations on one adapter.  Each has its own closure
\* variables; the pool (`leased`) is the adapter's and is shared.  The plain
\* variables are those of the invocation whose callback runs, `parked` keeps
\* the others', and the event loop turning to another invocation exchanges
\* them.  Callbacks run to completion, so the exchange happens only between
\* actions.

\* The list invocation j passes: the texts alternate, and the lists of two
\* consecutive invocations differ from the first statement on.
OwnList(j) ==
    [k \in 1..MaxConcLen |-> [text |-> IF (j + k) % 2 = 0 THEN "q1" ELSE "q2"]]

\* transact(queries, callback), called for the invocation at hand
transactConcurrent ==
    /\ multiple("transact", OwnList(self), "function")
    /\ performTransaction
    /\ UNCHANGED <<others, calls, heldAtCall, client, leased, doneCalls, log, poolLog, observed,
                   accumulator, index, count, results>>

\* `client` is kept on the adapter instead of in the connect callback's scope.
resume_SharedClient(j) ==
    /\ j \in Invs \ {self}
    /\ parked[j].op = "none" \/ parked[j].pending # {}
    /\ self' = j
    /\ parked' = [parked EXCEPT ![self] = Local, ![j] = Fresh]
    /\ op' = parked[j].op
    /\ queries' = parked[j].queries
    /\ mode' = parked[j].mode
    /\ callback' = parked[j].callback
    /\ calls' = parked[j].calls
    /\ heldAtCall' = parked[j].heldAtCall
    /\ promise' = parked[j].promise
    /\ pending' = parked[j].pending
    /\ UNCHANGED client
    /\ doneCalls' = parked[j].doneCalls
    /\ log' = parked[j].log
    /\ poolLog' = parked[j].poolLog
    /\ observed' = parked[j].observed
    /\ accumulator' = parked[j].accumulator
    /\ index' = parked[j].index
    /\ count' = parked[j].count
    /\ results' = parked[j].results
    /\ UNCHANGED <<leased, eachLog, doneLog, pushLog, apiLog, poolCalls, strings, keys, tagged, poolEvents>>

\* The event loop turns to invocation j: to its call of #transact or to one
\* of its callbacks.
resume(j) ==
    /\ j \in Invs \ {self}
    /\ parked[j].op = "none" \/ parked[j].pending # {}
    /\ self' = j
    /\ parked' = [parked EXCEPT ![self] = Local, ![j] = Fresh]
    /\ op' = parked[j].op
    /\ queries' = parked[j].queries
    /\ mode' = parked[j].mode
    /\ callback' = parked[j].callback
    /\ calls' = parked[j].calls
    /\ heldAtCall' = parked[j].heldAtCall
    /\ promise' = parked[j].promise
    /\ pending' = parked[j].pending
    /\ client' = parked[j].client
    /\ doneCalls' = parked[j].doneCalls
    /\ log' = parked[j].log
    /\ poolLog' = parked[j].poolLog
    /\ observed' = parked[j].observed
    /\ accumulator' = parked[j].accumulator
    /\ index' = parked[j].index
    /\ count' = parked[j].count
    /\ results' = parked[j].results
    /\ UNCHANGED <<leased, eachLog, doneLog, pushLog, apiLog, poolCalls, strings, keys, tagged, poolEvents>>

switch == \E j \in Invs : resume(j)

NextConcurrent ==
    \/ transactConcurrent
    \/ connectCallback
    \/ beginCallback
    \/ eachTick
    \/ queryCallback
    \/ doneTick
    \/ commitCallback
    \/ rollbackCallback
    \/ switch

SpecConcurrent == Init /\ [][NextConcurrent]_vars

\* ------------------------------------------------------- close and query
\* What a caller may pass and what the pool may answer.
ArgValues == {"text", "function"}
ArgLists == SeqsUpTo(ArgValues, MaxArgs)
PoolReturns == {"promise", "undefined"}

\* `return this.pool.end();`: the arguments are not passed on.
close_NoArguments ==
    \E args \in ArgLists, ret \in PoolReturns :
        /\ Len(apiLog) < MaxCalls
        /\ poolCalls' = Append(poolCalls, [method |-> "end", args |-> <<>>, returned |-> ret])
        /\ apiLog' = Append(apiLog, [method |-> "close", args |-> args, returned |-> ret])
        /\ UNCHANGED <<locals, leased, eachLog, doneLog, pushLog, self, parked,
                       strings, keys, tagged, poolEvents>>

\* close(): return this.pool.end.apply(this.pool, arguments)
close ==
    \E args \in ArgLists, ret \in PoolReturns :
        /\ Len(apiLog) < MaxCalls
        /\ poolCalls' = Append(poolCalls, [method |-> "end", args |-> args, returned |-> ret])
        /\ apiLog' = Append(apiLog, [method |-> "close", args |-> args, returned |-> ret])
        /\ UNCHANGED <<locals, leased, eachLog, doneLog, pushLog, self, parked,
                       strings, keys, tagged, poolEvents>>

\* query(query, params, callback): return this.pool.query.apply(this.pool, arguments)
query ==
    \E args \in ArgLists, ret \in PoolReturns :
        /\ Len(apiLog) < MaxCalls
        /\ poolCalls' = Append(poolCalls, [method |-> "query", args |-> args, returned |-> ret])
        /\ apiLog' = Append(apiLog, [method |-> "query", args |-> args, returned |-> ret])
        /\ UNCHANGED <<locals, leased, eachLog, doneLog, pushLog, self, parked,
                       strings, keys, tagged, poolEvents>>

NextDelegation ==
    \/ close
    \/ query

SpecDelegation == Init /\ [][NextDelegation]_vars

\* ------------------------------------------------------------------ sql
\* Text is a sequence of characters.  Template fragments and interpolated
\* values are taken from a few strings that have what the tag looks at: a
\* trailing `$`, runs of white space, nothing at all.
Frags == {<<>>, <<"$">>, <<"a", "$">>, <<"a", " ", "\n", "b">>}
KeyValues == {<<"v">>, <<"w", "$">>}

Whitespace == {" ", "\n"}

\* (i - offset) as it is concatenated to a string
Digits == <<"1", "2", "3", "4", "5", "6", "7", "8", "9">>
ToText(n) == IF n \in DOMAIN Digits THEN <<Digits[n]>> ELSE <<"?">>

charAtEnd(text) == IF text = <<>> THEN "" ELSE text[Len(text)]

\* sql.slice(0, -1)
slice(text) == IF text = <<>> THEN <<>> ELSE SubSeq(text, 1, Len(text) - 1)

\* params.splice(at, 1): the element at 0-based `at` (counted from the end
\* when negative) is taken out; [0] of an empty removal is undefined.
splice(params, at) ==
    LET start == IF at < 0
                 THEN (IF Len(params) + at < 0 THEN 0 ELSE Len(params) + at)
                 ELSE at
    IN  IF start < Len(params)
        THEN [removed |-> params[start + 1],
              params  |-> SubSeq(params, 1, start) \o SubSeq(params, start + 2, Len(params))]
        ELSE [removed |-> <<"undefined">>, params |-> params]

RECURSIVE skipSpace(_)
skipSpace(text) ==
    IF text # <<>> /\ Head(text) \in Whitespace THEN skipSpace(Tail(text)) ELSE text

\* .replace(/\s+/g, ' ')
RECURSIVE replace(_)
replace(text) ==
    IF text = <<>> THEN <<>>
    ELSE IF Head(text) \in Whitespace
         THEN <<" ">> \o replace(skipSpace(text))
         ELSE <<Head(text)>> \o replace(Tail(text))

\* The reduce callback, (sql, frag, i) => ..., with the `params` and `offset`
\* it closes over carried along.  i is the 0-based index of frag in strings.
reducer(acc, frag, i) ==
    IF charAtEnd(acc.sql) = "$"
    THEN LET taken == splice(acc.params, i - (acc.offset + 1))
         IN  [sql    |-> slice(acc.sql) \o taken.removed \o frag,
              params |-> taken.params,
              offset |-> acc.offset + 1]
    ELSE [sql    |-> acc.sql \o <<"$">> \o ToText(i - acc.offset) \o frag,
          params |-> acc.params,
          offset |-> acc.offset]

\* strings.reduce(callback): no initial value, so strings[0] is the first
\* accumulator and the callback runs for i = 1 .. length - 1.
RECURSIVE reduce(_, _, _)
reduce(strs, ks, i) ==
    IF i = 0
    THEN [sql |-> strs[1], params |-> ks, offset |-> 0]
    ELSE reducer(reduce(strs, ks, i - 1), strs[i + 1], i)

\* sql(strings, ...keys)
sql(strs, ks) ==
    LET end == reduce(strs, ks, Len(strs) - 1)
    IN  [text |-> replace(end.sql), values |-> end.params]

\* A tagged template: one fragment more than there are interpolations.
InitSql ==
    /\ Idle
    /\ queries = <<>>
    /\ \E n \in 0..MaxKeys :
          /\ strings \in [1..(n + 1) -> Frags]
          /\ keys \in [1..n -> KeyValues]

sqlCall ==
    /\ tagged = <<>>
    /\ tagged' = <<sql(strings, keys)>>
    /\ UNCHANGED <<locals, leased, eachLog, doneLog, pushLog, self, parked, apiLog,
                   poolCalls, strings, keys, poolEvents>>

NextSql == sqlCall

SpecSql == InitSql /\ [][NextSql]_vars

\* ------------------------------------------------------------ properties
QueryKinds == {"BEGIN", "stmt", "COMMIT", "ROLLBACK"}

NumIssued(text) == Cardinality({i \in DOMAIN log : log[i].text = text})

ObservedAt(kind, idx, ok) ==
    \E i \in DOMAIN observed :
        observed[i] = [kind |-> kind, idx |-> idx, ok |-> ok]

Failures == {i \in DOMAIN observed : ~observed[i].ok}
Successes == {i \in DOMAIN observed : observed[i].ok}

\* The result of statement k of list q, for every k.
Expected(q) == [k \in 1..Len(q) |-> Result(q[k].text, Params(q[k]))]

StatementFailed == \E i \in Failures : observed[i].kind = "stmt"

\* C1: when a statement of a transaction fails (connect and BEGIN having
\* succeeded), the invocation issues exactly one ROLLBACK, calls the release
\* function exactly once, and hands the caller an error with null results.
C1_StatementFailure ==
    (op = "transact" /\ StatementFailed) =>
        /\ NumIssued("ROLLBACK") = 1
        /\ Len(doneCalls) <= 1
        /\ Len(calls) <= 1
        /\ \A i \in DOMAIN calls : calls[i].error # NoError /\ calls[i].result = Null
        /\ promise.state \in {"none", "pending", "rejected"}
        /\ promise.value = Null
        /\ pending = {} => Len(doneCalls) = 1 /\ Len(calls) = 1

\* The second of three statements failed after the first was pushed, and the
\* invocation has run to its end.
C1_Witness ==
    /\ op = "transact"
    /\ Len(queries) = 3
    /\ ObservedAt("stmt", 2, FALSE)
    /\ accumulator # <<>>
    /\ pending = {}
    /\ Len(calls) = 1

\* C2: a transaction over a non-empty list whose statements (and COMMIT) all
\* succeed yields results of the list's length with result[k] that of
\* statement k, after exactly one BEGIN and one COMMIT and no ROLLBACK, all on
\* the leased connection.
C2_SuccessResults ==
    op = "transact" =>
        /\ (Len(queries) > 0 /\ ObservedAt("COMMIT", 0, TRUE)) =>
              /\ calls = <<[error |-> NoError, result |-> Arr(Expected(queries))]>>
              /\ mode = "promise" =>
                    promise = [state |-> "fulfilled", error |-> NoError,
                               value |-> Arr(Expected(queries))]
              /\ NumIssued("BEGIN") = 1
              /\ NumIssued("COMMIT") = 1
              /\ NumIssued("ROLLBACK") = 0
              /\ client # NoClient
              /\ \A i \in DOMAIN log : log[i].conn = client
        /\ \A i \in DOMAIN calls :
              calls[i].error = NoError =>
                  /\ ObservedAt("COMMIT", 0, TRUE)
                  /\ \A k \in 1..Len(queries) : ObservedAt("stmt", k, TRUE)

\* Two different statements were committed.
C2_Witness ==
    /\ op = "transact"
    /\ Len(queries) >= 2
    /\ queries[1] # queries[2]
    /\ ObservedAt("COMMIT", 0, TRUE)
    /\ calls # <<>>

\* C3: once a lease is held, the release function is called at most once, and
\* exactly once by the time the caller is notified, whichever way the
\* transaction ends.
C3_ReleaseOnce ==
    (op = "transact" /\ client # NoClient) =>
        /\ Len(doneCalls) <= 1
        /\ calls # <<>> => Len(doneCalls) = 1
        /\ (Len(doneCalls) = 1) <=> (client \notin leased)
        /\ pending = {} => calls # <<>>

\* COMMIT failed, then ROLLBACK failed, and the caller has been notified.
C3_Witness ==
    /\ op = "transact"
    /\ ObservedAt("COMMIT", 0, FALSE)
    /\ ObservedAt("ROLLBACK", 0, FALSE)
    /\ calls # <<>>
    /\ Len(doneCalls) = 1

StatementLog == SelectSeq(log, LAMBDA e : e.text \in Texts)

\* Queries issued on the connection whose callback has not run.
InFlight ==
    Len(log) - Cardinality({i \in DOMAIN observed : observed[i].kind \in QueryKinds})

\* C4: a transaction issues its statements in input order, one at a time:
\* statement k+1 only after statement k's completion was observed, the first
\* only after BEGIN succeeded, and never two queries in flight together.
C4_StrictOrder ==
    op = "transact" =>
        /\ Len(StatementLog) <= Len(queries)
        /\ \A k \in DOMAIN StatementLog :
              /\ StatementLog[k].text = queries[k].text
              /\ StatementLog[k].values = Params(queries[k])
              /\ k > 1 => ObservedAt("stmt", k - 1, TRUE)
        /\ StatementLog # <<>> => ObservedAt("BEGIN", 0, TRUE)
        /\ InFlight \in {0, 1}
        /\ Cardinality({t \in pending : t.kind \in QueryKinds}) = InFlight

\* The third statement is in flight behind two completed ones.
C4_Witness ==
    /\ op = "transact"
    /\ Len(StatementLog) = 3
    /\ queries[1] # queries[2]
    /\ InFlight = 1

\* The error that sent the transaction to rollback.
Trigger ==
    LET i == CHOOSE j \in Failures : observed[j].kind # "ROLLBACK"
    IN  Err(observed[i].kind, observed[i].idx)

\* C5: on a rollback path the caller gets the triggering error (of BEGIN, of
\* the statement or of COMMIT) when ROLLBACK succeeds, the ROLLBACK error when
\* ROLLBACK fails, and nothing else.
C5_RollbackError ==
    op = "transact" =>
        /\ ObservedAt("ROLLBACK", 0, TRUE) =>
              calls = <<[error |-> Trigger, result |-> Null]>>
        /\ ObservedAt("ROLLBACK", 0, FALSE) =>
              calls = <<[error |-> Err("ROLLBACK", 0), result |-> Null]>>
        /\ \A i \in DOMAIN calls :
              calls[i].error \notin {NoError, Err("connect", 0)} =>
                  /\ NumIssued("ROLLBACK") = 1
                  /\ \E ok \in BOOLEAN : ObservedAt("ROLLBACK", 0, ok)
        /\ mode = "promise" /\ calls # <<>> /\ calls[1].error # NoError =>
              promise = [state |-> "rejected", error |-> calls[1].error, value |-> Null]

\* ROLLBACK succeeded after a statement error, which the caller received.
C5_Witness ==
    /\ op = "transact"
    /\ ObservedAt("stmt", 2, FALSE)
    /\ ObservedAt("ROLLBACK", 0, TRUE)
    /\ calls = <<[error |-> Err("stmt", 2), result |-> Null]>>

\* C6: whenever #parallel reports success, every slot of the results array is
\* filled and results[i] is the result of statements[i], whatever the order
\* in which the queries completed.
C6_ParallelOrder ==
    op = "parallel" =>
        \A i \in DOMAIN calls :
            calls[i].error = NoError =>
                /\ calls[i].result = Arr(Expected(queries))
                /\ \A k \in 1..Len(queries) : ObservedAt("pquery", k, TRUE)
                /\ mode = "promise" => promise.value = Arr(Expected(queries))

\* Success reported although the first statement completed last.
C6_Witness ==
    /\ op = "parallel"
    /\ Len(queries) = 3
    /\ queries[1] # queries[3]
    /\ Len(observed) = 3
    /\ observed[1].idx = 3
    /\ observed[3].idx = 1
    /\ calls # <<>>
    /\ calls[1].error = NoError

AllSucceeded ==
    /\ Failures = {}
    /\ \A k \in 1..Len(queries) : ObservedAt("pquery", k, TRUE)

\* C7: for a list of any length N >= 0 whose statements all succeed,
\* #parallel calls back exactly once, with no error and the N results (the
\* Promise fulfils), once all N have completed.
C7_ParallelCompletes ==
    (op = "parallel" /\ AllSucceeded) =>
        /\ calls = <<[error |-> NoError, result |-> Arr(Expected(queries))]>>
        /\ mode = "promise" => promise.state = "fulfilled"

\* The m-th failing completion in `observed`.
RECURSIVE NthFailure(_, _)
NthFailure(m, from) ==
    IF ~observed[from].ok
    THEN IF m = 1 THEN from ELSE NthFailure(m - 1, from + 1)
    ELSE NthFailure(m, from + 1)

\* The results array as filled by the completions before position j.
ResultsBefore(j) ==
    [k \in 1..Len(queries) |->
        IF \E i \in 1..(j - 1) : observed[i].idx = k /\ observed[i].ok
        THEN Result(queries[k].text, Params(queries[k]))
        ELSE Empty]

\* C8: in callback mode each failing statement of a batch calls back in the
\* step that observes it, with its error and the results array as filled so
\* far: the results of the statements already completed, at their own
\* indices, and holes elsewhere.
C8_ParallelFailure ==
    (op = "parallel" /\ mode = "callback" /\ Failures # {}) =>
        /\ Len(calls) = Cardinality(Failures)
        /\ \A m \in DOMAIN calls :
              LET j == NthFailure(m, 1)
              IN  calls[m] = [error |-> Err("pquery", observed[j].idx),
                              result |-> Arr(ResultsBefore(j))]

\* A failure delivered with one slot filled while a query is still in flight.
C8_Witness ==
    /\ op = "parallel"
    /\ mode = "callback"
    /\ Len(queries) = 3
    /\ Len(observed) = 2
    /\ observed[1].ok
    /\ ~observed[2].ok
    /\ pending # {}
    /\ Len(calls) = 1
    /\ calls[1].result # Arr([k \in 1..3 |-> Empty])

C10_ParallelFailsOnce ==
    (op = "parallel" /\ Failures # {}) =>
        /\ mode = "callback" => Len(calls) = 1
        /\ mode = "promise" => promise.state = "rejected"

\* C11: in promise mode a batch with a failing statement settles its Promise
\* once, as a rejection with the error of the first failure observed; later
\* failures and successes leave the Promise as it is, and the partial results
\* array is never its value.
C11_PromiseRejectsOnce ==
    (op = "parallel" /\ mode = "promise" /\ Failures # {}) =>
        promise = [state |-> "rejected",
                   error |-> Err("pquery", observed[NthFailure(1, 1)].idx),
                   value |-> Null]

\* Two failures followed by a late success: the wrapper ran twice, the Promise
\* holds the first error.
C11_Witness ==
    /\ op = "parallel"
    /\ mode = "promise"
    /\ Len(observed) = 3
    /\ ~observed[1].ok
    /\ ~observed[2].ok
    /\ observed[3].ok
    /\ Len(calls) = 2
    /\ promise.state = "rejected"

\* What the Promise holds once the wrapper has been called with `call`.
Settled(call) ==
    IF call.error # NoError
    THEN [state |-> "rejected", error |-> call.error, value |-> Null]
    ELSE [state |-> "fulfilled", error |-> NoError, value |-> call.result]

\* C12: a transaction notifies its caller exactly once on every path: the
\* callback is never called twice, it has been called when nothing is left
\* to run, and in promise mode the Promise is settled by that one call, never
\* both resolved and rejected.
C12_CompletesOnce ==
    op = "transact" =>
        /\ Len(calls) <= 1
        /\ pending = {} <=> Len(calls) = 1
        /\ mode = "callback" => promise.state = "none"
        /\ mode = "promise" =>
              promise = IF calls = <<>>
                        THEN [state |-> "pending", error |-> NoError, value |-> Null]
                        ELSE Settled(calls[1])

\* BEGIN failed and so did ROLLBACK; the Promise is rejected and nothing is
\* left to run.
C12_Witness ==
    /\ op = "transact"
    /\ mode = "promise"
    /\ ObservedAt("BEGIN", 0, FALSE)
    /\ ObservedAt("ROLLBACK", 0, FALSE)
    /\ pending = {}
    /\ Len(calls) = 1
    /\ promise.state = "rejected"

\* Calls of pool.connect: those still waiting and those called back.
ConnectCalls ==
    Cardinality({t \in pending : t.kind = "connect"})
        + Cardinality({i \in DOMAIN observed : observed[i].kind = "connect"})

LeaseAcquisitions ==
    Cardinality({i \in DOMAIN observed : observed[i].kind = "connect" /\ observed[i].ok})

\* C13 as stated: whatever the outcome, a finished invocation has made
\* exactly one lease acquisition, one BEGIN, at most one COMMIT, at most one
\* ROLLBACK and exactly one release.
C13_SideEffects ==
    (op = "transact" /\ pending = {}) =>
        /\ LeaseAcquisitions = 1
        /\ NumIssued("BEGIN") = 1
        /\ NumIssued("COMMIT") <= 1
        /\ NumIssued("ROLLBACK") <= 1
        /\ Len(doneCalls) = 1

\* C13 amended: whatever the outcome, an invocation makes exactly one
\* acquisition request, at most one COMMIT, at most one ROLLBACK and exactly
\* one call of the release function; it issues exactly one BEGIN when the
\* acquisition succeeds and none when it fails.
C13_SideEffectsAmended ==
    op = "transact" =>
        /\ ConnectCalls = 1
        /\ LeaseAcquisitions <= 1
        /\ NumIssued("BEGIN") = LeaseAcquisitions
        /\ NumIssued("COMMIT") <= 1
        /\ NumIssued("ROLLBACK") <= 1
        /\ Len(doneCalls) <= 1
        /\ pending = {} => Len(doneCalls) = 1

\* A finished invocation that went through BEGIN, one statement, a failed
\* COMMIT and ROLLBACK.
C13_Witness ==
    /\ op = "transact"
    /\ Len(queries) = 1
    /\ ObservedAt("COMMIT", 0, FALSE)
    /\ ObservedAt("ROLLBACK", 0, TRUE)
    /\ pending = {}
    /\ NumIssued("BEGIN") = 1
    /\ Len(doneCalls) = 1

AcquisitionFailed == op = "transact" /\ ObservedAt("connect", 0, FALSE)

\* C14: when the lease cannot be acquired the caller gets the acquisition
\* error itself, with null results, and no BEGIN, statement, COMMIT or
\* ROLLBACK is issued.
C14_AcquisitionFailure ==
    AcquisitionFailed =>
        /\ calls = <<[error |-> Err("connect", 0), result |-> Null]>>
        /\ mode = "promise" =>
              promise = [state |-> "rejected", error |-> Err("connect", 0), value |-> Null]
        /\ log = <<>>
        /\ pending = {}

\* The acquisition failed for a non-empty list whose caller holds a Promise.
C14_Witness ==
    /\ AcquisitionFailed
    /\ queries # <<>>
    /\ mode = "promise"
    /\ promise.state = "rejected"

\* C15 as stated: when the acquisition fails, the release function handed
\* over by the pool is not called.
C15_NoReleaseOnFailure ==
    AcquisitionFailed => doneCalls = <<>>

\* C15 amended: when the acquisition fails, no lease is obtained and none is
\* given back, but the function the pool handed over is called, exactly once
\* and with the client argument of the failed connect.
C15_DoneOnFailure ==
    AcquisitionFailed =>
        /\ doneCalls = <<[tag |-> "client", conn |-> NoClient, error |-> NoError]>>
        /\ client = NoClient
        /\ leased = {}
        /\ LeaseAcquisitions = 0

\* The acquisition failed under a callback and done has been called.
C15_Witness ==
    /\ AcquisitionFailed
    /\ mode = "callback"
    /\ Len(doneCalls) = 1
    /\ Len(calls) = 1

\* C16: when BEGIN fails the transaction goes straight to ROLLBACK on the
\* leased connection: no statement and no COMMIT is ever issued, and the
\* caller gets the BEGIN error when ROLLBACK succeeds.
C16_BeginFailure ==
    (op = "transact" /\ ObservedAt("BEGIN", 0, FALSE)) =>
        /\ client # NoClient
        /\ log = <<[conn |-> client, text |-> "BEGIN", values |-> <<>>],
                   [conn |-> client, text |-> "ROLLBACK", values |-> <<>>]>>
        /\ ObservedAt("ROLLBACK", 0, TRUE) =>
              calls = <<[error |-> Err("BEGIN", 0), result |-> Null]>>

\* BEGIN failed before a list of statements, ROLLBACK succeeded, and the
\* caller has the BEGIN error.
C16_Witness ==
    /\ op = "transact"
    /\ Len(queries) >= 2
    /\ ObservedAt("BEGIN", 0, FALSE)
    /\ ObservedAt("ROLLBACK", 0, TRUE)
    /\ calls # <<>>

AllStatementsSucceeded == \A k \in 1..Len(queries) : ObservedAt("stmt", k, TRUE)

\* C17: when statement i fails, ROLLBACK is the next query issued and no later
\* statement is ever issued; COMMIT is issued if and only if all the
\* statements (run once BEGIN has succeeded) completed successfully.
C17_FailureStopsSequence ==
    op = "transact" =>
        /\ \A j \in Failures :
              observed[j].kind = "stmt" =>
                  LET i == observed[j].idx
                  IN  /\ Len(log) = i + 2
                      /\ log[i + 1].text = queries[i].text
                      /\ log[i + 2] = [conn |-> client, text |-> "ROLLBACK", values |-> <<>>]
                      /\ Len(StatementLog) = i
        /\ NumIssued("COMMIT") > 0 =>
              ObservedAt("BEGIN", 0, TRUE) /\ AllStatementsSucceeded
        /\ (ObservedAt("BEGIN", 0, TRUE) /\ AllStatementsSucceeded) =>
              \/ NumIssued("COMMIT") = 1
              \/ pending = {Task("tickDone", 0, 0, NoError)}

\* The first of three statements failed and the invocation has ended: the
\* other two were never issued.
C17_Witness ==
    /\ op = "transact"
    /\ Len(queries) = 3
    /\ ObservedAt("stmt", 1, FALSE)
    /\ pending = {}
    /\ Len(log) = 3

\* C18: when COMMIT fails, ROLLBACK is issued on the leased connection right
\* after it, the lease is released, and the caller gets an error and not the
\* full-length results that were accumulated.
C18_CommitFailure ==
    (op = "transact" /\ ObservedAt("COMMIT", 0, FALSE)) =>
        /\ Len(accumulator) = Len(queries)
        /\ log[Len(log) - 1] = [conn |-> client, text |-> "COMMIT", values |-> <<>>]
        /\ log[Len(log)] = [conn |-> client, text |-> "ROLLBACK", values |-> <<>>]
        /\ NumIssued("ROLLBACK") = 1
        /\ \A i \in DOMAIN calls : calls[i].error # NoError /\ calls[i].result = Null
        /\ promise.state # "fulfilled"
        /\ doneCalls # <<>> => \E ok \in BOOLEAN : ObservedAt("ROLLBACK", 0, ok)
        /\ pending = {} =>
              /\ Len(doneCalls) = 1
              /\ client \notin leased
              /\ Len(calls) = 1

\* Two statements succeeded, COMMIT failed, ROLLBACK succeeded and the
\* Promise is rejected with the COMMIT error.
C18_Witness ==
    /\ op = "transact"
    /\ Len(queries) = 2
    /\ ObservedAt("COMMIT", 0, FALSE)
    /\ ObservedAt("ROLLBACK", 0, TRUE)
    /\ promise = [state |-> "rejected", error |-> Err("COMMIT", 0), value |-> Null]

\* C19: #transact and #parallel called with a function run in callback style
\* (error first, results second) and return no Promise; called with nothing
\* or with a value that is not callable they run the same operation and
\* return a Promise, which resolves with the results or rejects with the
\* error.
C19_DualModeDispatch ==
    op # "none" =>
        /\ op = "transact" => ConnectCalls = 1
        /\ op = "parallel" => poolLog = queries
        /\ callback = "function" =>
              /\ mode = "callback"
              /\ promise.state = "none"
        /\ callback # "function" =>
              /\ mode = "promise"
              /\ promise = IF calls = <<>>
                           THEN [state |-> "pending", error |-> NoError, value |-> Null]
                           ELSE Settled(calls[1])

\* #parallel was handed a string for a callback and the Promise it returned
\* has resolved with the results.
C19_Witness ==
    /\ op = "parallel"
    /\ callback = "string"
    /\ Len(queries) = 2
    /\ promise = [state |-> "fulfilled", error |-> NoError,
                  value |-> Arr(Expected(queries))]

\* What the caller has been given: the arguments of its callback, or the
\* settlement of its Promise.
Delivered ==
    IF mode = "callback"
    THEN calls
    ELSE IF promise.state \in {"fulfilled", "rejected"}
         THEN <<[error |-> promise.error, result |-> promise.value]>>
         ELSE <<>>

\* A transaction as a function of its statement list and of the outcomes of
\* its pool and connection operations alone, in the order they were called:
\* the operation that follows operation `cur` once it has ended with `ok`.
NoOp == [kind |-> "none", idx |-> 0]
Operation(kind, idx) == [kind |-> kind, idx |-> idx]

Follow(q, cur, ok) ==
    IF ~ok
    THEN IF cur.kind \in {"connect", "ROLLBACK"} THEN NoOp ELSE Operation("ROLLBACK", 0)
    ELSE CASE cur.kind = "connect" -> Operation("BEGIN", 0)
           [] cur.kind = "BEGIN" ->
                IF Len(q) > 0 THEN Operation("stmt", 1) ELSE Operation("COMMIT", 0)
           [] cur.kind = "stmt" ->
                IF cur.idx < Len(q) THEN Operation("stmt", cur.idx + 1)
                ELSE Operation("COMMIT", 0)
           [] OTHER -> NoOp

RECURSIVE RefRun(_, _, _, _)
RefRun(q, oks, pos, cur) ==
    IF cur = NoOp THEN <<>>
    ELSE <<cur>> \o (IF pos > Len(oks) THEN <<>>
                     ELSE RefRun(q, oks, pos + 1, Follow(q, cur, oks[pos])))

RefOperations(q, oks) == RefRun(q, oks, 1, Operation("connect", 0))

\* The query an operation puts on the connection.
RefQuery(q, o) ==
    IF o.kind = "stmt"
    THEN [text |-> q[o.idx].text, values |-> Params(q[o.idx])]
    ELSE [text |-> o.kind, values |-> <<>>]

RefDelivered(q, oks) ==
    LET ops == RefOperations(q, oks)
        n == Len(ops)
    IN  IF n # Len(oks) THEN <<>>
        ELSE CASE ops[n].kind = "connect" ->
                    <<[error |-> Err("connect", 0), result |-> Null]>>
               [] ops[n].kind = "COMMIT" ->
                    <<[error |-> NoError, result |-> Arr(Expected(q))]>>
               [] ops[n].kind = "ROLLBACK" ->
                    <<[error |-> IF oks[n] THEN Err(ops[n - 1].kind, ops[n - 1].idx)
                                 ELSE Err("ROLLBACK", 0),
                       result |-> Null]>>

Outcomes == [i \in DOMAIN observed |-> observed[i].ok]

TickPending == \E t \in pending : t.kind \in {"tickEach", "tickDone"}

\* C20: the operations a transaction calls on the pool and the connection,
\* and the results or the error its caller is given, are functions of the
\* statement list and of the outcomes of those operations, the same
\* functions under a callback and under a Promise: for equal lists and equal
\* outcomes the two modes issue the same operations and deliver equal
\* results on success and an equal error on failure.
C20_DualModeEquivalence ==
    op = "transact" =>
        LET ops == RefOperations(queries, Outcomes)
            issued == [i \in 1..(Len(ops) - 1) |-> RefQuery(queries, ops[i + 1])]
            onClient == [i \in DOMAIN log |-> [text |-> log[i].text, values |-> log[i].values]]
        IN  /\ onClient = IF TickPending THEN SubSeq(issued, 1, Len(issued) - 1)
                          ELSE issued
            /\ Len(doneCalls) = IF Len(ops) = Len(Outcomes) THEN 1 ELSE 0
            /\ Delivered = RefDelivered(queries, Outcomes)

\* A Promise fulfilled with the results of two statements.
C20_Witness ==
    /\ op = "transact"
    /\ mode = "promise"
    /\ Len(queries) = 2
    /\ Outcomes = <<TRUE, TRUE, TRUE, TRUE, TRUE>>
    /\ Delivered = <<[error |-> NoError, result |-> Arr(Expected(queries))]>>

\* C24: #parallel issues every statement of the list exactly once as a
\* one-shot query on the pool, all of them in the call itself, before any
\* completion is handled; it asks for no lease and issues no BEGIN, COMMIT or
\* ROLLBACK.
C24_ParallelIssue ==
    op = "parallel" =>
        /\ poolLog = queries
        /\ \A t \in pending : t.kind = "pquery"
        /\ \A k \in 1..Len(queries) :
              Cardinality({i \in DOMAIN observed : observed[i].idx = k})
                  + Cardinality({t \in pending : t.idx = k}) = 1
        /\ Cardinality(pending) + Len(observed) = Len(queries)
        /\ ConnectCalls = 0
        /\ log = <<>>
        /\ leased = {}
        /\ client = NoClient
        /\ doneCalls = <<>>

\* Three statements are in flight together and none has completed.
C24_Witness ==
    /\ op = "parallel"
    /\ Len(queries) = 3
    /\ observed = <<>>
    /\ Cardinality(pending) = 3
    /\ poolLog = queries

\* The release function was called for a connection that had been leased.
Released == op = "transact" /\ client # NoClient /\ doneCalls # <<>>

\* C26: once an invocation has called the release function, it issues no
\* further query on the connection; and it calls the release function only
\* after COMMIT has succeeded or after ROLLBACK has completed.
C26_NothingAfterRelease ==
    /\ [][Released => log' = log]_vars
    /\ [](Released =>
            /\ \/ ObservedAt("COMMIT", 0, TRUE)
               \/ \E ok \in BOOLEAN : ObservedAt("ROLLBACK", 0, ok)
            /\ observed[Len(observed)].kind \in {"COMMIT", "ROLLBACK"}
            /\ InFlight = 0
            /\ pending = {}
            /\ client \notin leased)

\* The connection was released after a statement failed and ROLLBACK
\* completed.
C26_Witness ==
    /\ Released
    /\ ObservedAt("stmt", 2, FALSE)
    /\ ObservedAt("ROLLBACK", 0, TRUE)
    /\ Len(log) = 4

\* C27: in an invocation that reached the statements (BEGIN succeeded) and
\* has ended, the accumulator is as long as the list if and only if every
\* statement succeeded; when the statement at 0-based position i failed, it
\* holds exactly the i results of the statements before it.
C27_AccumulatorLength ==
    (op = "transact" /\ ObservedAt("BEGIN", 0, TRUE)) =>
        /\ Len(accumulator) <= Len(queries)
        /\ accumulator = SubSeq(Expected(queries), 1, Len(accumulator))
        /\ pending = {} =>
              (Len(accumulator) = Len(queries) <=> AllStatementsSucceeded)
        /\ \A j \in Failures :
              observed[j].kind = "stmt" => Len(accumulator) = observed[j].idx - 1

\* The third of three statements failed after two results were pushed, and
\* the invocation has ended.
C27_Witness ==
    /\ op = "transact"
    /\ Len(queries) = 3
    /\ ObservedAt("stmt", 3, FALSE)
    /\ Len(accumulator) = 2
    /\ pending = {}

\* Completions of queries on the connection, in the order observed.
QueryOutcomes == SelectSeq(observed, LAMBDA e : e.kind \in QueryKinds)

\* C28: nothing is retried.  Every statement index is issued at most once,
\* BEGIN, COMMIT and ROLLBACK at most once each; after the first failure the
\* only query issued is one ROLLBACK, and after a failed ROLLBACK none.
C28_NoRetry ==
    op = "transact" =>
        /\ ConnectCalls = 1
        /\ NumIssued("BEGIN") <= 1
        /\ NumIssued("COMMIT") <= 1
        /\ NumIssued("ROLLBACK") <= 1
        /\ Len(StatementLog) <= Len(queries)
        /\ \A i, j \in DOMAIN observed :
              (observed[i].kind = observed[j].kind /\ observed[i].idx = observed[j].idx)
                  => i = j
        /\ \A p \in DOMAIN QueryOutcomes :
              ~QueryOutcomes[p].ok =>
                  IF QueryOutcomes[p].kind = "ROLLBACK"
                  THEN Len(log) = p /\ pending = {}
                  ELSE /\ Len(log) = p + 1
                       /\ log[p + 1].text = "ROLLBACK"
        /\ ObservedAt("connect", 0, FALSE) => log = <<>> /\ pending = {}

\* A statement failed, then ROLLBACK failed, and the invocation ended with
\* just the four queries issued.
C28_Witness ==
    /\ op = "transact"
    /\ ObservedAt("stmt", 2, FALSE)
    /\ ObservedAt("ROLLBACK", 0, FALSE)
    /\ pending = {}
    /\ Len(log) = 4

\* C21: with a worker that calls its continuation once, sequence invokes the
\* worker once per item, in input order and with the item at the current
\* index, and never for item j+1 before the continuation of item j was called.
C21_WorkerOrder ==
    op = "sequence" =>
        /\ Len(eachLog) <= Len(queries)
        /\ \A k \in DOMAIN eachLog : eachLog[k] = queries[k]
        /\ \A k \in DOMAIN observed : observed[k] = [kind |-> "next", idx |-> k, ok |-> TRUE]
        /\ Len(observed) <= Len(eachLog)
        /\ Len(eachLog) <= Len(observed) + 1
        /\ index \in {Len(eachLog), Len(observed)}
        /\ Cardinality(pending) <= 1
        /\ pending = {} => Len(eachLog) = Len(queries)

\* The worker has been invoked for each of three items, the second unlike
\* the first, and the run is over.
C21_Witness ==
    /\ op = "sequence"
    /\ Len(queries) = 3
    /\ queries[1] # queries[2]
    /\ Len(eachLog) = 3
    /\ pending = {}

\* C22: once every item's continuation has been called, the completion
\* callback is invoked, exactly once and after the last continuation, with
\* the one accumulator that holds what the workers pushed, in the order
\* pushed; it is never invoked while an item is outstanding.
C22_Completion ==
    op = "sequence" =>
        /\ accumulator = pushLog
        /\ Len(doneLog) <= 1
        /\ doneLog # <<>> =>
              /\ Len(eachLog) = Len(queries)
              /\ Len(observed) = Len(queries)
              /\ doneLog[1] = pushLog
              /\ pending = {}
        /\ Len(observed) = Len(queries) =>
              \/ pending = {Task("tickDone", 0, 0, NoError)} /\ doneLog = <<>>
              \/ pending = {} /\ Len(doneLog) = 1

\* Completion was called with two values for three items: one worker pushed
\* nothing.
C22_Witness ==
    /\ op = "sequence"
    /\ Len(queries) = 3
    /\ Len(pushLog) = 2
    /\ doneLog = <<pushLog>>

\* C23: over an empty array sequence never invokes the worker and invokes the
\* completion callback exactly once, with an empty accumulator.
C23_EmptySequence ==
    (op = "sequence" /\ queries = <<>>) =>
        /\ eachLog = <<>>
        /\ observed = <<>>
        /\ \A t \in pending : t.kind = "tickDone"
        /\ IF pending = {} THEN doneLog = << <<>> >> ELSE doneLog = <<>>

\* The completion callback has run for an empty array.
C23_Witness ==
    /\ op = "sequence"
    /\ queries = <<>>
    /\ doneLog = << <<>> >>
    /\ pending = {}

\* Interpolation k of a template is prefixed when the fragment in front of it
\* ends with `$`.
Prefixed(strs, k) == strs[k] # <<>> /\ strs[k][Len(strs[k])] = "$"

PlainUpTo(strs, k) == Cardinality({j \in 1..k : ~Prefixed(strs, j)})

\* The text the documentation describes, up to and including the fragment
\* after interpolation k.
RECURSIVE DocumentedText(_, _, _)
DocumentedText(strs, ks, k) ==
    IF k = 0 THEN strs[1]
    ELSE LET before == DocumentedText(strs, ks, k - 1)
         IN  IF Prefixed(strs, k)
             THEN SubSeq(before, 1, Len(before) - 1) \o ks[k] \o strs[k + 1]
             ELSE before \o <<"$">> \o ToText(PlainUpTo(strs, k)) \o strs[k + 1]

RECURSIVE DocumentedValues(_, _, _)
DocumentedValues(strs, ks, k) ==
    IF k = 0 THEN <<>>
    ELSE IF Prefixed(strs, k)
         THEN DocumentedValues(strs, ks, k - 1)
         ELSE Append(DocumentedValues(strs, ks, k - 1), ks[k])

\* C30: for every template the tag returns the text in which each plain
\* interpolation is the placeholder $k, numbered from 1 in order of
\* appearance, and each interpolation prefixed by `$` is inlined in place of
\* the `$` (white space runs reading as one space), and the values that are
\* exactly the plain interpolations in order.
C30_SqlTag ==
    tagged # <<>> =>
        tagged[1] = [text   |-> replace(DocumentedText(strings, keys, Len(keys))),
                     values |-> DocumentedValues(strings, keys, Len(keys))]

\* C29: #close and #query only delegate.  The i-th call of either is the
\* i-th call on the pool, of end for close and of query for query, with the
\* same arguments in the same order; it returns what the pool returned; and
\* nothing else of the adapter changes.
C29_Delegation ==
    /\ Len(poolCalls) = Len(apiLog)
    /\ \A i \in DOMAIN apiLog :
          /\ poolCalls[i].method = (IF apiLog[i].method = "close" THEN "end" ELSE "query")
          /\ poolCalls[i].args = apiLog[i].args
          /\ apiLog[i].returned = poolCalls[i].returned
    /\ apiLog # <<>> =>
          /\ Local = Fresh
          /\ leased = {}
          /\ eachLog = <<>> /\ doneLog = <<>> /\ tagged = <<>>

\* A query with a text and a callback that returned the pool's Promise, then
\* a close with an argument.
C29_Witness ==
    /\ Len(apiLog) = 2
    /\ apiLog[1] = [method |-> "query", args |-> <<"text", "function">>, returned |-> "promise"]
    /\ apiLog[2].method = "close"
    /\ apiLog[2].args = <<"function">>
    /\ poolCalls[2].method = "end"

\* The closure variables of invocation j.
View(j) == IF j = self THEN Local ELSE parked[j]

\* Invocation j has acquired a connection and not called done yet.
Holds(j) == View(j).client # NoClient /\ View(j).doneCalls = <<>>

\* C25: with several #transact invocations under way on one adapter, every
\* query of an invocation goes to the connection that invocation acquired;
\* a query is issued only while the issuer holds its connection and nobody
\* else holds the same one; and an invocation delivers the results of its own
\* statements, in its own order, or null.
C25_Isolation ==
    /\ [](\A j \in Invs :
            LET v == View(j)
            IN  /\ \A i \in DOMAIN v.log : v.log[i].conn = v.client /\ v.client \in Conns
                /\ Holds(j) => v.client \in leased
                /\ \A k \in Invs \ {j} :
                      (Holds(j) /\ Holds(k)) => v.client # View(k).client
                /\ \A i \in DOMAIN v.calls :
                      IF v.calls[i].error = NoError
                      THEN v.calls[i].result = Arr(Expected(v.queries))
                      ELSE v.calls[i].result = Null)
    /\ [][(self' = self /\ Len(log') > Len(log)) =>
              /\ client' # NoClient
              /\ client' \in leased'
              /\ doneCalls' = <<>>
              /\ log'[Len(log')].conn = client'
              /\ \A k \in Invs \ {self} : Holds(k) => parked[k].client # client']_vars

\* Two invocations hold a connection each, both with a statement issued:
\* one has its first result and waits for its second, the other has since
\* finished and delivered its own two results.
C25_Witness ==
    /\ Holds(1)
    /\ Len(View(1).log) = 3
    /\ Len(View(1).accumulator) = 1
    /\ View(2).client \notin {NoClient, View(1).client}
    /\ View(2).calls = <<[error |-> NoError, result |-> Arr(Expected(OwnList(2)))]>>
    /\ OwnList(2) # OwnList(1)

\* C36: wherever #transact calls the release function (acquisition failure,
\* COMMIT success, every rollback path) it does so before it calls the
\* caller back: the caller is never notified while the lease is still held.
C36_ReleaseBeforeCallback ==
    op = "transact" =>
        /\ Len(heldAtCall) = Len(calls)
        /\ \A i \in DOMAIN heldAtCall : ~heldAtCall[i]
        /\ calls # <<>> => (doneCalls # <<>> /\ client \notin leased)

\* The caller was told of a committed transaction and found the connection
\* it had run on back in the pool.
C36_Witness ==
    /\ op = "transact"
    /\ ObservedAt("COMMIT", 0, TRUE)
    /\ client # NoClient
    /\ heldAtCall = <<FALSE>>
    /\ Len(doneCalls) = 1

\* C37: what is passed to the release function depends on the exit path
\* alone: the outcome of ROLLBACK on a rollback path (its error when it
\* failed, no error when it succeeded, never the error that triggered it),
\* and the connect callback's `client` on the COMMIT-success path and on the
\* acquisition-failure path.
C37_ReleaseArgument ==
    op = "transact" =>
        \A i \in DOMAIN doneCalls :
            IF \E ok \in BOOLEAN : ObservedAt("ROLLBACK", 0, ok)
            THEN doneCalls[i] =
                    [tag |-> "rollbackError", conn |-> NoClient,
                     error |-> RollbackError(ObservedAt("ROLLBACK", 0, TRUE))]
            ELSE /\ doneCalls[i] = [tag |-> "client", conn |-> client, error |-> NoError]
                 /\ \/ ObservedAt("COMMIT", 0, TRUE)
                    \/ ObservedAt("connect", 0, FALSE)

\* ROLLBACK succeeded after a statement had failed, and done was called with
\* no error.
C37_Witness ==
    /\ op = "transact"
    /\ ObservedAt("stmt", 1, FALSE)
    /\ ObservedAt("ROLLBACK", 0, TRUE)
    /\ doneCalls = <<[tag |-> "rollbackError", conn |-> NoClient, error |-> NoError]>>

\* C38: in a batch of #parallel in which a statement fails, success is never
\* reported, before or after the failure and in whatever order the queries
\* complete: the counter counts the successes only and stays below the
\* length of the list.
C38_NoSuccessAfterFailure ==
    op = "parallel" =>
        /\ count = Cardinality(Successes)
        /\ Failures # {} =>
              /\ count < Len(queries)
              /\ \A i \in DOMAIN calls : calls[i].error # NoError
              /\ promise.state # "fulfilled"
        /\ \A i \in DOMAIN calls :
              calls[i].error = NoError =>
                  (pending = {} /\ Cardinality(Successes) = Len(queries))

\* The first completion of three was a failure, the other two succeeded, and
\* the only call made is the one for the failure.
C38_Witness ==
    /\ op = "parallel"
    /\ Len(queries) = 3
    /\ Len(observed) = 3
    /\ ~observed[1].ok
    /\ observed[2].ok
    /\ observed[3].ok
    /\ Len(calls) = 1

\* C39: #transact over an empty list, with connect, BEGIN and COMMIT
\* succeeding, issues BEGIN and right after it COMMIT on the leased
\* connection, releases the lease once and reports success with an empty
\* result sequence.
C39_EmptyTransaction ==
    (op = "transact" /\ queries = <<>>) =>
        /\ \A i \in DOMAIN log :
              /\ log[i].conn = client
              /\ log[i].values = <<>>
              /\ i = 1 => log[i].text = "BEGIN"
        /\ ObservedAt("BEGIN", 0, TRUE) =>
              \/ pending = {Task("tickDone", 0, 0, NoError)} /\ Len(log) = 1
              \/ Len(log) >= 2 /\ log[2].text = "COMMIT"
        /\ ObservedAt("COMMIT", 0, TRUE) =>
              /\ Len(log) = 2
              /\ doneCalls = <<[tag |-> "client", conn |-> client, error |-> NoError]>>
              /\ client \notin leased
              /\ calls = <<[error |-> NoError, result |-> Arr(<<>>)]>>
              /\ mode = "promise" =>
                    promise = [state |-> "fulfilled", error |-> NoError, value |-> Arr(<<>>)]

\* An empty transaction was committed for a caller holding a Promise.
C39_Witness ==
    /\ op = "transact"
    /\ queries = <<>>
    /\ ObservedAt("COMMIT", 0, TRUE)
    /\ mode = "promise"
    /\ promise.state = "fulfilled"

\* C32: #transact has no cancellation and no timeout. While a query it issued
\* (BEGIN, a statement, COMMIT or ROLLBACK) has not completed, that query is
\* all the invocation waits for, the lease is held and the caller has not
\* been notified; the only step the invocation can take is that query's
\* completion. If it never comes, nothing more is issued, no ROLLBACK
\* starts, the lease is never released and the caller is never notified.
C32_Blocked ==
    [][\A t \in pending :
          (op = "transact" /\ t.kind \in QueryKinds) =>
              /\ pending = {t}
              /\ calls = <<>>
              /\ doneCalls = <<>>
              /\ client \in leased
              /\ Len(observed') = Len(observed) + 1
              /\ observed'[Len(observed')].kind = t.kind
              /\ observed'[Len(observed')].idx = t.idx
              /\ SubSeq(observed', 1, Len(observed)) = observed]_vars

\* The second statement is in flight after the first one succeeded.
C32_Witness ==
    /\ op = "transact"
    /\ pending = {Task("stmt", 2, 2, NoError)}
    /\ ObservedAt("stmt", 1, TRUE)
    /\ Len(log) = 3
    /\ calls = <<>>
    /\ client \in leased

\* C33: if the worker invoked for item k never calls its continuation, the
\* driver halts: while that continuation is outstanding nothing else is
\* scheduled, the worker has been invoked for items 1..k only, completion has
\* not been invoked, and the only step there is is the call of that
\* continuation.
C33_Halted ==
    [][\A t \in pending :
          (op = "sequence" /\ t.kind = "next") =>
              /\ pending = {t}
              /\ Len(eachLog) = t.idx
              /\ doneLog = <<>>
              /\ observed' = Append(observed, [kind |-> "next", idx |-> t.idx, ok |-> TRUE])
              /\ eachLog' = eachLog
              /\ doneLog' = doneLog]_vars

\* The worker has been invoked for the first of three items and has not
\* called its continuation.
C33_Witness ==
    /\ op = "sequence"
    /\ Len(queries) = 3
    /\ pending = {Task("next", 1, 1, NoError)}
    /\ Len(eachLog) = 1
    /\ doneLog = <<>>

\* C34: every invocation of the worker and the invocation of the completion
\* callback is scheduled with process.nextTick: none of them happens in the
\* step that calls sequence or in the step that calls the continuation,
\* which leave exactly one tick to run later; that holds for the first item
\* and for the completion of an empty array as well.
C34_Asynchronous ==
    [][(op' = "sequence" /\ (op = "none" \/ observed' # observed)) =>
          /\ eachLog' = eachLog
          /\ doneLog' = doneLog
          /\ \E t \in pending' :
                /\ pending' = {t}
                /\ t.kind = IF index' < Len(queries) THEN "tickEach" ELSE "tickDone"]_vars

\* sequence has returned over an empty array and the completion callback has
\* not run yet.
C34_Witness ==
    /\ op = "sequence"
    /\ queries = <<>>
    /\ pending = {Task("tickDone", 0, 0, NoError)}
    /\ doneLog = <<>>

\* C40: the continuation has no at-most-once guard. Every call of a
\* continuation, the second like the first, sets the shared index to the
\* value the continuation captured and schedules one more tick: the ticks
\* outstanding and the ticks that have run (worker invocations and
\* completions) are as many as the calls of continuations plus the one tick
\* of sequence itself, and continuations called twice have scheduled two.
C40_NoGuard ==
    op = "sequence" =>
        /\ Cardinality({t \in pending : IsTick(t)}) + Len(eachLog) + Len(doneLog)
             = 1 + Len(observed)
        /\ \A t \in pending :
              t.kind \in {"next", "called"} =>
                  Cardinality({i \in DOMAIN observed : observed[i].idx = t.idx})
                     = IF t.kind = "next" THEN 0 ELSE 1

\* The continuation of the first of three items was called twice and two
\* ticks were scheduled: the third item was handed to the worker while the
\* continuation of the second has not been called.
C40_Witness ==
    /\ op = "sequence"
    /\ Len(queries) = 3
    /\ observed = <<[kind |-> "next", idx |-> 1, ok |-> TRUE],
                    [kind |-> "next", idx |-> 1, ok |-> TRUE]>>
    /\ eachLog = queries
    /\ Task("next", 2, 2, NoError) \in pending
    /\ Task("next", 3, 3, NoError) \in pending

\* An item was handed to the worker a second time.
HandedTwice ==
    /\ op = "sequence"
    /\ \E i, j \in DOMAIN eachLog :
          i < j /\ eachLog[i] = eachLog[j] /\ eachLog[i] # Undefined

\* The completion callback was invoked a second time.
CompletedTwice ==
    /\ op = "sequence"
    /\ Len(doneLog) = 2

\* The worker was handed arr[index] with the index past the end of the array.
HandedUndefined ==
    /\ op = "sequence"
    /\ \E i \in DOMAIN eachLog : eachLog[i] = Undefined

\* C35: the adapter's handler of the pool's 'error' event does nothing. The
\* step in which the pool emits 'error' leaves the adapter and whatever
\* query, batch or transaction is in flight as they were, and calls no
\* callback of the caller's.
C35_ErrorEventIgnored ==
    [][poolEvents' # poolEvents =>
          UNCHANGED <<locals, leased, eachLog, doneLog, pushLog, self, parked, apiLog,
                      poolCalls, strings, keys, tagged>>]_vars

\* The pool emitted 'error' while a statement of a transaction was in
\* flight, and the transaction went on to commit and report success.
C35_Witness ==
    /\ op = "transact"
    /\ \E i \in DOMAIN poolEvents : \E t \in poolEvents[i] : t.kind = "stmt"
    /\ ObservedAt("COMMIT", 0, TRUE)
    /\ Len(calls) = 1
    /\ calls[1].error = NoError

\* C31: provided every operation on the pool and on the connection completes,
\* every invocation of #transact terminates, whatever the list, the empty one
\* included: nothing stays outstanding, the caller's completion has been
\* invoked, the release function has been called when a connection was
\* obtained, and the connection is back in the pool.
C31_Terminates ==
    (op = "transact") ~>
        (/\ pending = {}
         /\ calls # <<>>
         /\ client \notin leased
         /\ client # NoClient => doneCalls # <<>>)

\* A transaction whose second statement failed and whose ROLLBACK failed as
\* well has come to its end.
C31_Witness ==
    /\ op = "transact"
    /\ ObservedAt("stmt", 2, FALSE)
    /\ ObservedAt("ROLLBACK", 0, FALSE)
    /\ pending = {}
    /\ Len(calls) = 1
    /\ Len(doneCalls) = 1
    /\ client \notin leased

====
